---- MODULE Spec2Model ----
(***************************************************************************)
(* pasteboard-mcp: the Swift adapter pbhelper (swift/pbhelper.swift) and   *)
(* the TypeScript process bridge (src/pasteboard.ts) that spawns it once   *)
(* per call.                                                               *)
(*                                                                         *)
(* Representation of values                                                *)
(*   Data / Buffer      a sequence of bytes (0..255)                       *)
(*   String / string    a sequence of Unicode scalar values                *)
(*   Optional<T>        <<>> for nil/undefined/null, <<v>> for a value     *)
(*   stderr text        a sequence of chunks (TLA+ strings); a chunk that  *)
(*                      is blank stands for whitespace                     *)
(*   list-types stdout  a sequence of JSON tokens                          *)
(***************************************************************************)
EXTENDS Integers, Sequences, FiniteSets, TLC

VARIABLES pasteboards, call, lastWrite, bridge, procs, owner

vars == <<pasteboards, call, lastWrite, bridge, procs, owner>>

----------------------------------------------------------------------------
(* Optionals *)

None == <<>>

Some(v) == <<v>>

IsSome(o) == Len(o) = 1

Get(o) == o[1]

----------------------------------------------------------------------------
(* UTF-8, as Swift's String.utf8 / String(data:encoding:) and Node's       *)
(* stream write / Buffer.toString perform it.                              *)

UTF8EncodeScalar(c) ==
    IF c < 128 THEN <<c>>
    ELSE IF c < 2048 THEN <<192 + (c \div 64), 128 + (c % 64)>>
    ELSE IF c < 65536
        THEN <<224 + (c \div 4096), 128 + ((c \div 64) % 64), 128 + (c % 64)>>
    ELSE <<240 + (c \div 262144), 128 + ((c \div 4096) % 64),
           128 + ((c \div 64) % 64), 128 + (c % 64)>>

RECURSIVE UTF8Encode(_)
UTF8Encode(s) ==
    IF s = <<>> THEN <<>>
    ELSE UTF8EncodeScalar(Head(s)) \o UTF8Encode(Tail(s))

IsCont(b) == b >= 128 /\ b <= 191

\* The scalar at the head of a non-empty byte sequence and the number of
\* bytes it takes, <<scalar, n>>; <<>> when the head is ill-formed.
UTF8Head(d) ==
    LET b == d[1]
        n == Len(d)
    IN  IF b < 128 THEN <<b, 1>>
        ELSE IF b >= 194 /\ b <= 223 /\ n >= 2 /\ IsCont(d[2])
            THEN <<(b - 192) * 64 + (d[2] - 128), 2>>
        ELSE IF b >= 224 /\ b <= 239 /\ n >= 3 /\ IsCont(d[2]) /\ IsCont(d[3])
                /\ (b = 224 => d[2] >= 160) /\ (b = 237 => d[2] <= 159)
            THEN <<(b - 224) * 4096 + (d[2] - 128) * 64 + (d[3] - 128), 3>>
        ELSE IF b >= 240 /\ b <= 244 /\ n >= 4
                /\ IsCont(d[2]) /\ IsCont(d[3]) /\ IsCont(d[4])
                /\ (b = 240 => d[2] >= 144) /\ (b = 244 => d[2] <= 143)
            THEN <<(b - 240) * 262144 + (d[2] - 128) * 4096
                      + (d[3] - 128) * 64 + (d[4] - 128), 4>>
        ELSE <<>>

\* Swift: String(data: d, encoding: .utf8) -- nil when d is not valid UTF-8.
RECURSIVE StringFromData(_)
StringFromData(d) ==
    IF d = <<>> THEN Some(<<>>)
    ELSE LET h == UTF8Head(d)
         IN  IF h = <<>> THEN None
             ELSE LET rest == StringFromData(SubSeq(d, h[2] + 1, Len(d)))
                  IN  IF IsSome(rest) THEN Some(<<h[1]>> \o Get(rest)) ELSE None

\* Swift: Data(text.utf8)
DataFromString(s) == UTF8Encode(s)

ReplacementChar == 65533

\* Node: buffer.toString() -- UTF-8 decoding; an ill-formed byte becomes U+FFFD.
RECURSIVE BufferToString(_)
BufferToString(d) ==
    IF d = <<>> THEN <<>>
    ELSE LET h == UTF8Head(d)
         IN  IF h = <<>>
             THEN <<ReplacementChar>> \o BufferToString(Tail(d))
             ELSE <<h[1]>> \o BufferToString(SubSeq(d, h[2] + 1, Len(d)))

\* Node: proc.stdin.write(string) -- the string is written UTF-8 encoded.
BufferFromString(s) == UTF8Encode(s)

----------------------------------------------------------------------------
(* Foundation: trimmingCharacters(in: .whitespacesAndNewlines) *)

IsWhitespace(c) == c \in {9, 10, 11, 12, 13, 32, 133, 160}

RECURSIVE TrimLeft(_)
TrimLeft(s) ==
    IF s # <<>> /\ IsWhitespace(Head(s)) THEN TrimLeft(Tail(s)) ELSE s

RECURSIVE TrimRight(_)
TrimRight(s) ==
    IF s # <<>> /\ IsWhitespace(s[Len(s)])
    THEN TrimRight(SubSeq(s, 1, Len(s) - 1))
    ELSE s

TrimmingWhitespace(s) == TrimRight(TrimLeft(s))

----------------------------------------------------------------------------
(* Base64, as Data(base64Encoded:) and base64EncodedString() perform it.   *)
(* A base64 string is a String, so a sequence of scalars.                  *)

PadChar == 61

B64Char(v) ==
    IF v < 26 THEN 65 + v
    ELSE IF v < 52 THEN 71 + v
    ELSE IF v < 62 THEN v - 4
    ELSE IF v = 62 THEN 43 ELSE 47

B64Value(c) ==
    IF c >= 65 /\ c <= 90 THEN c - 65
    ELSE IF c >= 97 /\ c <= 122 THEN c - 71
    ELSE IF c >= 48 /\ c <= 57 THEN c + 4
    ELSE IF c = 43 THEN 62
    ELSE IF c = 47 THEN 63
    ELSE -1

RECURSIVE Base64Encode(_)
Base64Encode(d) ==
    IF Len(d) = 0 THEN <<>>
    ELSE IF Len(d) = 1
        THEN <<B64Char(d[1] \div 4), B64Char((d[1] % 4) * 16), PadChar, PadChar>>
    ELSE IF Len(d) = 2
        THEN <<B64Char(d[1] \div 4), B64Char((d[1] % 4) * 16 + (d[2] \div 16)),
               B64Char((d[2] % 16) * 4), PadChar>>
    ELSE <<B64Char(d[1] \div 4), B64Char((d[1] % 4) * 16 + (d[2] \div 16)),
           B64Char((d[2] % 16) * 4 + (d[3] \div 64)), B64Char(d[3] % 64)>>
         \o Base64Encode(SubSeq(d, 4, Len(d)))

\* The bytes of one group of four characters; `last` says it is the final
\* group, the only one that may be padded. None when the group is invalid.
B64Group(q, last) ==
    LET v1 == B64Value(q[1])
        v2 == B64Value(q[2])
        v3 == B64Value(q[3])
        v4 == B64Value(q[4])
    IN  IF v1 < 0 \/ v2 < 0 THEN None
        ELSE IF q[3] = PadChar
            THEN IF last /\ q[4] = PadChar
                 THEN Some(<<v1 * 4 + (v2 \div 16)>>)
                 ELSE None
        ELSE IF v3 < 0 THEN None
        ELSE IF q[4] = PadChar
            THEN IF last
                 THEN Some(<<v1 * 4 + (v2 \div 16), (v2 % 16) * 16 + (v3 \div 4)>>)
                 ELSE None
        ELSE IF v4 < 0 THEN None
        ELSE Some(<<v1 * 4 + (v2 \div 16), (v2 % 16) * 16 + (v3 \div 4),
                    (v3 % 4) * 64 + v4>>)

\* Swift: Data(base64Encoded: s) with no options -- nil on any character
\* outside the alphabet (whitespace included) or on a bad length.
RECURSIVE Base64Decode(_)
Base64Decode(s) ==
    IF s = <<>> THEN Some(<<>>)
    ELSE IF Len(s) < 4 THEN None
    ELSE LET g == B64Group(SubSeq(s, 1, 4), Len(s) = 4)
         IN  IF ~IsSome(g) THEN None
             ELSE LET rest == Base64Decode(SubSeq(s, 5, Len(s)))
                  IN  IF IsSome(rest) THEN Some(Get(g) \o Get(rest)) ELSE None

----------------------------------------------------------------------------
(* AppKit: NSBitmapImageRep.  An image file is a format signature followed *)
(* by the pixel bytes; a bitmap is the pixel bytes.                        *)

PNGSignature == <<137, 80, 78, 71>>

TIFFLittleEndian == <<73, 73>>

TIFFBigEndian == <<77, 77>>

HasPrefix(d, p) == Len(d) >= Len(p) /\ SubSeq(d, 1, Len(p)) = p

\* NSBitmapImageRep(data: d) -- nil when d holds no decodable image.
BitmapImageRep(d) ==
    IF HasPrefix(d, PNGSignature) /\ Len(d) > Len(PNGSignature)
        THEN Some(SubSeq(d, Len(PNGSignature) + 1, Len(d)))
    ELSE IF (HasPrefix(d, TIFFLittleEndian) \/ HasPrefix(d, TIFFBigEndian))
            /\ Len(d) > Len(TIFFBigEndian)
        THEN Some(SubSeq(d, Len(TIFFBigEndian) + 1, Len(d)))
    ELSE None

\* rep.representation(using: fileType, properties: [:]) -- an Optional<Data>.
Representation(rep, fileType) ==
    IF fileType = "tiff" THEN Some(TIFFBigEndian \o rep)
    ELSE IF fileType = "png" THEN Some(PNGSignature \o rep)
    ELSE None

----------------------------------------------------------------------------
(* AppKit: NSPasteboard.  The contents of one pasteboard are its           *)
(* representations in the order they were set: records [type, data].       *)

NSPasteboardTypeString == "public.utf8-plain-text"

NSPasteboardTypeTIFF == "public.tiff"

NSPasteboardTypePNG == "public.png"

\* clearContents leaving the contents where they are.
ClearContentsKeeping(items) == items

\* pb.clearContents()
ClearContents(items) == <<>>

\* pb.setData(data, forType: type)
SetData(items, data, type) ==
    IF \E i \in DOMAIN items : items[i].type = type
    THEN [i \in DOMAIN items |->
            IF items[i].type = type THEN [type |-> type, data |-> data]
            ELSE items[i]]
    ELSE Append(items, [type |-> type, data |-> data])

\* pb.setString(str, forType: type)
SetString(items, str, type) == SetData(items, DataFromString(str), type)

\* pb.data(forType: type)
DataForType(items, type) ==
    IF \E i \in DOMAIN items : items[i].type = type
    THEN Some(items[CHOOSE i \in DOMAIN items : items[i].type = type].data)
    ELSE None

\* pb.string(forType: type) -- nil when the type is absent or its data is
\* not text.
StringForType(items, type) ==
    LET d == DataForType(items, type)
    IN  IF IsSome(d) THEN StringFromData(Get(d)) ELSE None

\* pb.types
Types(items) == [i \in DOMAIN items |-> items[i].type]

\* getPasteboard returning the general pasteboard whatever the name.
getPasteboardIgnoringName(name) == "general"

\* getPasteboard(name:): the pasteboard a name denotes.
getPasteboard(name) ==
    IF ~IsSome(name) THEN "general"
    ELSE CASE Get(name) = "general" -> "general"
           [] Get(name) = "find" -> "find"
           [] Get(name) = "font" -> "font"
           [] Get(name) = "ruler" -> "ruler"
           [] Get(name) = "drag" -> "drag"
           [] OTHER -> Get(name)

----------------------------------------------------------------------------
(* pbhelper: process exit and argument parsing.  The outcome of a run is   *)
(* [stdout, stderr, exitCode, pasteboards].                                *)

\* printError(message)
printError(message) == message \o <<"\n">>

ExitSuccess == 0

ExitFailure == 1

\* exitError(message): the message on standard error, exit code 1.
exitError(message, pbs) ==
    [stdout |-> <<>>, stderr |-> printError(message),
     exitCode |-> ExitFailure, pasteboards |-> pbs]

\* A command that returns: the process ends with exit code 0.
exitOK(out, pbs) ==
    [stdout |-> out, stderr |-> <<>>, exitCode |-> ExitSuccess,
     pasteboards |-> pbs]

UsageText == <<"Usage: pbhelper <command> [options]">>

\* struct Args
DefaultArgs ==
    [command |-> "", pasteboard |-> None, type |-> None,
     format |-> "png", isBase64 |-> FALSE]

\* The while loop of parseArgs, from index i (argv[1] is the program name).
RECURSIVE parseLoop(_, _, _)
parseLoop(argv, i, args) ==
    IF i > Len(argv) THEN [ok |-> TRUE, args |-> args, stderr |-> <<>>]
    ELSE CASE argv[i] = "--pasteboard" ->
                IF i + 1 > Len(argv)
                THEN [ok |-> FALSE, args |-> args,
                      stderr |-> printError(<<"Missing value for --pasteboard">>)]
                ELSE parseLoop(argv, i + 2,
                               [args EXCEPT !.pasteboard = Some(argv[i + 1])])
           [] argv[i] = "--type" ->
                IF i + 1 > Len(argv)
                THEN [ok |-> FALSE, args |-> args,
                      stderr |-> printError(<<"Missing value for --type">>)]
                ELSE parseLoop(argv, i + 2,
                               [args EXCEPT !.type = Some(argv[i + 1])])
           [] argv[i] = "--format" ->
                IF i + 1 > Len(argv)
                THEN [ok |-> FALSE, args |-> args,
                      stderr |-> printError(<<"Missing value for --format">>)]
                ELSE parseLoop(argv, i + 2,
                               [args EXCEPT !.format = argv[i + 1]])
           [] argv[i] = "--base64" ->
                parseLoop(argv, i + 1, [args EXCEPT !.isBase64 = TRUE])
           [] OTHER ->
                [ok |-> FALSE, args |-> args,
                 stderr |-> printError(<<"Unknown argument:", " ", argv[i]>>)]

\* parseArgs taking a flag for what it is wherever it stands: a flag
\* followed by another flag has no value.
parseArgsFlagsAnywhere(argv) ==
    IF Len(argv) < 2
    THEN [ok |-> FALSE, args |-> DefaultArgs, stderr |-> printError(UsageText)]
    ELSE IF \E i \in 3..(Len(argv) - 1) :
               /\ argv[i] \in {"--pasteboard", "--type", "--format"}
               /\ argv[i + 1] \in {"--pasteboard", "--type", "--format", "--base64"}
    THEN [ok |-> FALSE, args |-> DefaultArgs,
          stderr |-> printError(<<"Missing value for --type">>)]
    ELSE parseLoop(argv, 3, [DefaultArgs EXCEPT !.command = argv[2]])

\* parseArgs()
parseArgs(argv) ==
    IF Len(argv) < 2
    THEN [ok |-> FALSE, args |-> DefaultArgs, stderr |-> printError(UsageText)]
    ELSE parseLoop(argv, 3, [DefaultArgs EXCEPT !.command = argv[2]])

----------------------------------------------------------------------------
(* JSON text, as a sequence of tokens: punctuation, string literals and    *)
(* whitespace.                                                             *)

JPunct(c) == [k |-> "punct", v |-> c]

JString(str) == [k |-> "str", v |-> str]

JSpace(c) == [k |-> "ws", v |-> c]

RECURSIVE JoinStrings(_)
JoinStrings(strings) ==
    IF strings = <<>> THEN <<>>
    ELSE IF Len(strings) = 1 THEN <<JString(strings[1])>>
    ELSE <<JString(strings[1]), JPunct(",")>> \o JoinStrings(Tail(strings))

\* JSONSerialization.data(withJSONObject: strings) read back as a String.
JSONSerialize(strings) ==
    Some(<<JPunct("[")>> \o JoinStrings(strings) \o <<JPunct("]")>>)

\* print(str): the text and a line feed on standard output.
print(str) == str \o <<JSpace("\n")>>

RECURSIVE parseElements(_)
parseElements(toks) ==
    IF toks = <<>> \/ toks[1].k # "str" THEN None
    ELSE IF Len(toks) = 1 THEN Some(<<toks[1].v>>)
    ELSE IF toks[2] # JPunct(",") THEN None
    ELSE LET rest == parseElements(SubSeq(toks, 3, Len(toks)))
         IN  IF IsSome(rest) THEN Some(<<toks[1].v>> \o Get(rest)) ELSE None

IsNotSpace(tok) == tok.k # "ws"

\* JSON.parse(text) of an array of strings; None stands for a SyntaxError.
JSONParse(text) ==
    LET toks == SelectSeq(text, IsNotSpace)
    IN  IF Len(toks) < 2 \/ toks[1] # JPunct("[") \/ toks[Len(toks)] # JPunct("]")
        THEN None
        ELSE IF Len(toks) = 2 THEN Some(<<>>)
        ELSE parseElements(SubSeq(toks, 2, Len(toks) - 1))

----------------------------------------------------------------------------
(* pbhelper: the commands.  pbs maps each pasteboard to its contents.      *)

cmdListTypes(args, pbs) ==
    LET pb == getPasteboard(args.pasteboard)
        strings == Types(pbs[pb])
        json == JSONSerialize(strings)
    IN  IF ~IsSome(json) THEN exitError(<<"Failed to serialize types">>, pbs)
        ELSE exitOK(print(Get(json)), pbs)

\* cmdReadText writing its output with print: a line feed follows the text.
cmdReadTextPrinted(args, pbs) ==
    LET pb == getPasteboard(args.pasteboard)
        text == StringForType(pbs[pb], NSPasteboardTypeString)
    IN  IF ~IsSome(text) THEN exitError(<<"No text on pasteboard">>, pbs)
        ELSE exitOK(DataFromString(Get(text) \o <<10>>), pbs)


\* cmdReadText answering absent text with empty output and exit code 0.
cmdReadTextEmptyWhenAbsent(args, pbs) ==
    LET pb == getPasteboard(args.pasteboard)
        text == StringForType(pbs[pb], NSPasteboardTypeString)
    IN  IF ~IsSome(text) THEN exitOK(<<>>, pbs)
        ELSE exitOK(DataFromString(Get(text)), pbs)


\* cmdReadText trimming the text it reads.
cmdReadTextTrimmed(args, pbs) ==
    LET pb == getPasteboard(args.pasteboard)
        text == StringForType(pbs[pb], NSPasteboardTypeString)
    IN  IF ~IsSome(text) THEN exitError(<<"No text on pasteboard">>, pbs)
        ELSE exitOK(DataFromString(TrimmingWhitespace(Get(text))), pbs)


cmdReadText(args, pbs) ==
    LET pb == getPasteboard(args.pasteboard)
        text == StringForType(pbs[pb], NSPasteboardTypeString)
    IN  IF ~IsSome(text) THEN exitError(<<"No text on pasteboard">>, pbs)
        ELSE exitOK(DataFromString(Get(text)), pbs)

cmdWriteText(args, stdin, pbs) ==
    LET text == StringFromData(stdin)
        pb == getPasteboard(args.pasteboard)
    IN  IF ~IsSome(text) THEN exitError(<<"Invalid UTF-8 input">>, pbs)
        ELSE exitOK(<<>>,
                 [pbs EXCEPT ![pb] =
                     SetString(ClearContents(pbs[pb]), Get(text),
                               NSPasteboardTypeString)])

\* cmdReadImage ignoring --format: the output is always PNG.
cmdReadImageAlwaysPNG(args, pbs) ==
    LET pb == getPasteboard(args.pasteboard)
        tiffData == DataForType(pbs[pb], NSPasteboardTypeTIFF)
        fromTiff == IF IsSome(tiffData) THEN BitmapImageRep(Get(tiffData)) ELSE None
        pngData == DataForType(pbs[pb], NSPasteboardTypePNG)
        imageRep == IF ~IsSome(fromTiff) /\ IsSome(pngData)
                    THEN BitmapImageRep(Get(pngData))
                    ELSE fromTiff
    IN  IF ~IsSome(imageRep) THEN exitError(<<"No image on pasteboard">>, pbs)
        ELSE LET outputData == Representation(Get(imageRep), "png")
             IN  IF ~IsSome(outputData)
                 THEN exitError(<<"Failed to convert image to", " ", args.format>>, pbs)
                 ELSE exitOK(DataFromString(Base64Encode(Get(outputData))), pbs)


\* cmdReadImage trying the PNG representation before the TIFF one.
cmdReadImagePNGFirst(args, pbs) ==
    LET pb == getPasteboard(args.pasteboard)
        pngData == DataForType(pbs[pb], NSPasteboardTypePNG)
        fromPng == IF IsSome(pngData) THEN BitmapImageRep(Get(pngData)) ELSE None
        tiffData == DataForType(pbs[pb], NSPasteboardTypeTIFF)
        imageRep == IF ~IsSome(fromPng) /\ IsSome(tiffData)
                    THEN BitmapImageRep(Get(tiffData))
                    ELSE fromPng
    IN  IF ~IsSome(imageRep) THEN exitError(<<"No image on pasteboard">>, pbs)
        ELSE LET outputData ==
                     Representation(Get(imageRep),
                                    IF args.format = "tiff" THEN "tiff" ELSE "png")
             IN  IF ~IsSome(outputData)
                 THEN exitError(<<"Failed to convert image to", " ", args.format>>, pbs)
                 ELSE exitOK(DataFromString(Base64Encode(Get(outputData))), pbs)


cmdReadImage(args, pbs) ==
    LET pb == getPasteboard(args.pasteboard)
        tiffData == DataForType(pbs[pb], NSPasteboardTypeTIFF)
        fromTiff == IF IsSome(tiffData) THEN BitmapImageRep(Get(tiffData)) ELSE None
        pngData == DataForType(pbs[pb], NSPasteboardTypePNG)
        imageRep == IF ~IsSome(fromTiff) /\ IsSome(pngData)
                    THEN BitmapImageRep(Get(pngData))
                    ELSE fromTiff
        fileType == IF args.format = "tiff" THEN "tiff" ELSE "png"
    IN  IF ~IsSome(imageRep) THEN exitError(<<"No image on pasteboard">>, pbs)
        ELSE LET outputData == Representation(Get(imageRep), fileType)
             IN  IF ~IsSome(outputData)
                 THEN exitError(<<"Failed to convert image to", " ", args.format>>, pbs)
                 ELSE exitOK(DataFromString(Base64Encode(Get(outputData))), pbs)

\* cmdWriteImage without its clearContents: the image is merged in.
writeImageContentsNoClear(items, imageRep, format) ==
    LET tiffData == Representation(imageRep, "tiff")
        withTiff == IF IsSome(tiffData)
                    THEN SetData(items, Get(tiffData), NSPasteboardTypeTIFF)
                    ELSE items
        pngData == Representation(imageRep, "png")
    IN  IF format = "png" /\ IsSome(pngData)
        THEN SetData(withTiff, Get(pngData), NSPasteboardTypePNG)
        ELSE withTiff

\* cmdWriteImage writing the requested format alone.
writeImageContentsRequestedOnly(items, imageRep, format) ==
    LET cleared == ClearContents(items)
        tiffData == Representation(imageRep, "tiff")
        pngData == Representation(imageRep, "png")
    IN  IF format = "png" /\ IsSome(pngData)
        THEN SetData(cleared, Get(pngData), NSPasteboardTypePNG)
        ELSE IF IsSome(tiffData)
            THEN SetData(cleared, Get(tiffData), NSPasteboardTypeTIFF)
        ELSE cleared

\* cmdWriteImage writing the PNG representation whatever the format.
writeImageContentsBoth(items, imageRep, format) ==
    LET cleared == ClearContents(items)
        tiffData == Representation(imageRep, "tiff")
        withTiff == IF IsSome(tiffData)
                    THEN SetData(cleared, Get(tiffData), NSPasteboardTypeTIFF)
                    ELSE cleared
        pngData == Representation(imageRep, "png")
    IN  IF IsSome(pngData)
        THEN SetData(withTiff, Get(pngData), NSPasteboardTypePNG)
        ELSE withTiff

\* The pasteboard contents cmdWriteImage leaves: cleared, the TIFF
\* representation, and the PNG one when the format is png.
writeImageContents(items, imageRep, format) ==
    LET cleared == ClearContents(items)
        tiffData == Representation(imageRep, "tiff")
        withTiff == IF IsSome(tiffData)
                    THEN SetData(cleared, Get(tiffData), NSPasteboardTypeTIFF)
                    ELSE cleared
        pngData == Representation(imageRep, "png")
    IN  IF format = "png" /\ IsSome(pngData)
        THEN SetData(withTiff, Get(pngData), NSPasteboardTypePNG)
        ELSE withTiff

\* cmdWriteImage putting the decoded bytes on the pasteboard before it
\* finds that they are no image.
cmdWriteImageDecodingLate(args, stdin, pbs) ==
    LET str == StringFromData(stdin)
        imageData == IF IsSome(str)
                     THEN Base64Decode(TrimmingWhitespace(Get(str)))
                     ELSE None
        pb == getPasteboard(args.pasteboard)
    IN  IF ~IsSome(imageData) THEN exitError(<<"Invalid base64 image data">>, pbs)
        ELSE LET imageRep == BitmapImageRep(Get(imageData))
             IN  IF ~IsSome(imageRep)
                 THEN exitError(<<"Failed to decode image data">>,
                          [pbs EXCEPT ![pb] =
                              SetData(ClearContents(pbs[pb]), Get(imageData),
                                      NSPasteboardTypePNG)])
                 ELSE exitOK(<<>>,
                          [pbs EXCEPT ![pb] =
                              writeImageContents(pbs[pb], Get(imageRep), args.format)])


cmdWriteImage(args, stdin, pbs) ==
    LET str == StringFromData(stdin)
        imageData == IF IsSome(str)
                     THEN Base64Decode(TrimmingWhitespace(Get(str)))
                     ELSE None
        pb == getPasteboard(args.pasteboard)
    IN  IF ~IsSome(imageData) THEN exitError(<<"Invalid base64 image data">>, pbs)
        ELSE LET imageRep == BitmapImageRep(Get(imageData))
             IN  IF ~IsSome(imageRep)
                 THEN exitError(<<"Failed to decode image data">>, pbs)
                 ELSE exitOK(<<>>,
                          [pbs EXCEPT ![pb] =
                              writeImageContents(pbs[pb], Get(imageRep), args.format)])

\* cmdRead answering an absent type with empty output and exit code 0.
cmdReadEmptyWhenAbsent(args, pbs) ==
    IF ~IsSome(args.type)
    THEN exitError(<<"--type is required for read command">>, pbs)
    ELSE LET typeStr == Get(args.type)
             pb == getPasteboard(args.pasteboard)
             str == StringForType(pbs[pb], typeStr)
             data == DataForType(pbs[pb], typeStr)
         IN  IF IsSome(str) THEN exitOK(DataFromString(Get(str)), pbs)
             ELSE IF ~IsSome(data) THEN exitOK(<<>>, pbs)
             ELSE exitOK(DataFromString(Base64Encode(Get(data))), pbs)


\* cmdRead without the string attempt: every payload is emitted as base64.
cmdReadAlwaysBase64(args, pbs) ==
    IF ~IsSome(args.type)
    THEN exitError(<<"--type is required for read command">>, pbs)
    ELSE LET typeStr == Get(args.type)
             pb == getPasteboard(args.pasteboard)
             data == DataForType(pbs[pb], typeStr)
         IN  IF ~IsSome(data)
             THEN exitError(<<"No data for type", " ", typeStr, " ", "on pasteboard">>, pbs)
             ELSE exitOK(DataFromString(Base64Encode(Get(data))), pbs)


\* cmdRead taking what it returns off the pasteboard.
cmdReadConsuming(args, pbs) ==
    IF ~IsSome(args.type)
    THEN exitError(<<"--type is required for read command">>, pbs)
    ELSE LET typeStr == Get(args.type)
             pb == getPasteboard(args.pasteboard)
             str == StringForType(pbs[pb], typeStr)
             data == DataForType(pbs[pb], typeStr)
             taken == [pbs EXCEPT ![pb] = ClearContents(pbs[pb])]
         IN  IF IsSome(str) THEN exitOK(DataFromString(Get(str)), taken)
             ELSE IF ~IsSome(data)
                 THEN exitError(<<"No data for type", " ", typeStr, " ", "on pasteboard">>, pbs)
             ELSE exitOK(DataFromString(Base64Encode(Get(data))), taken)


cmdRead(args, pbs) ==
    IF ~IsSome(args.type)
    THEN exitError(<<"--type is required for read command">>, pbs)
    ELSE LET typeStr == Get(args.type)
             pb == getPasteboard(args.pasteboard)
             str == StringForType(pbs[pb], typeStr)
             data == DataForType(pbs[pb], typeStr)
         IN  IF IsSome(str) THEN exitOK(DataFromString(Get(str)), pbs)
             ELSE IF ~IsSome(data)
                 THEN exitError(<<"No data for type", " ", typeStr, " ", "on pasteboard">>, pbs)
             ELSE exitOK(DataFromString(Base64Encode(Get(data))), pbs)

\* cmdWrite ignoring --base64: standard input is always stored as a string.
cmdWriteIgnoringBase64(args, stdin, pbs) ==
    IF ~IsSome(args.type)
    THEN exitError(<<"--type is required for write command">>, pbs)
    ELSE LET typeStr == Get(args.type)
             pb == getPasteboard(args.pasteboard)
             str == StringFromData(stdin)
         IN  IF ~IsSome(str) THEN exitError(<<"Invalid UTF-8 input">>, pbs)
             ELSE exitOK(<<>>,
                      [pbs EXCEPT ![pb] =
                          SetString(ClearContents(pbs[pb]), Get(str), typeStr)])


\* cmdWrite calling clearContents before it has validated its input.
cmdWriteClearingFirst(args, stdin, pbs) ==
    IF ~IsSome(args.type)
    THEN exitError(<<"--type is required for write command">>, pbs)
    ELSE LET typeStr == Get(args.type)
             pb == getPasteboard(args.pasteboard)
             str == StringFromData(stdin)
             cleared == [pbs EXCEPT ![pb] = ClearContents(pbs[pb])]
         IN  IF args.isBase64
             THEN LET decoded == IF IsSome(str)
                                 THEN Base64Decode(TrimmingWhitespace(Get(str)))
                                 ELSE None
                  IN  IF ~IsSome(decoded)
                      THEN exitError(<<"Invalid base64 data">>, cleared)
                      ELSE exitOK(<<>>,
                               [pbs EXCEPT ![pb] =
                                   SetData(ClearContents(pbs[pb]), Get(decoded), typeStr)])
             ELSE IF ~IsSome(str) THEN exitError(<<"Invalid UTF-8 input">>, cleared)
                  ELSE exitOK(<<>>,
                           [pbs EXCEPT ![pb] =
                               SetString(ClearContents(pbs[pb]), Get(str), typeStr)])


cmdWrite(args, stdin, pbs) ==
    IF ~IsSome(args.type)
    THEN exitError(<<"--type is required for write command">>, pbs)
    ELSE LET typeStr == Get(args.type)
             pb == getPasteboard(args.pasteboard)
             str == StringFromData(stdin)
         IN  IF args.isBase64
             THEN LET decoded == IF IsSome(str)
                                 THEN Base64Decode(TrimmingWhitespace(Get(str)))
                                 ELSE None
                  IN  IF ~IsSome(decoded)
                      THEN exitError(<<"Invalid base64 data">>, pbs)
                      ELSE exitOK(<<>>,
                               [pbs EXCEPT ![pb] =
                                   SetData(ClearContents(pbs[pb]), Get(decoded), typeStr)])
             ELSE IF ~IsSome(str) THEN exitError(<<"Invalid UTF-8 input">>, pbs)
                  ELSE exitOK(<<>>,
                           [pbs EXCEPT ![pb] =
                               SetString(ClearContents(pbs[pb]), Get(str), typeStr)])

\* cmdClear reporting an empty pasteboard as a failure.
cmdClearFailsWhenEmpty(args, pbs) ==
    LET pb == getPasteboard(args.pasteboard)
    IN  IF pbs[pb] = <<>> THEN exitError(<<"Nothing to clear">>, pbs)
        ELSE exitOK(<<>>, [pbs EXCEPT ![pb] = ClearContents(pbs[pb])])


cmdClear(args, pbs) ==
    LET pb == getPasteboard(args.pasteboard)
    IN  exitOK(<<>>, [pbs EXCEPT ![pb] = ClearContents(pbs[pb])])

\* The switch ending an unknown command with the usage text and exit code 0.
mainUsageExitsZero(parsed, stdin, pbs) ==
    IF ~parsed.ok
    THEN [stdout |-> <<>>, stderr |-> parsed.stderr,
          exitCode |-> ExitFailure, pasteboards |-> pbs]
    ELSE CASE parsed.args.command = "list-types" -> cmdListTypes(parsed.args, pbs)
           [] parsed.args.command = "read-text" -> cmdReadText(parsed.args, pbs)
           [] parsed.args.command = "write-text" -> cmdWriteText(parsed.args, stdin, pbs)
           [] parsed.args.command = "read-image" -> cmdReadImage(parsed.args, pbs)
           [] parsed.args.command = "write-image" -> cmdWriteImage(parsed.args, stdin, pbs)
           [] parsed.args.command = "read" -> cmdRead(parsed.args, pbs)
           [] parsed.args.command = "write" -> cmdWrite(parsed.args, stdin, pbs)
           [] parsed.args.command = "clear" -> cmdClear(parsed.args, pbs)
           [] OTHER -> [stdout |-> <<>>, stderr |-> printError(UsageText),
                        exitCode |-> ExitSuccess, pasteboards |-> pbs]

\* The switch on args.command that follows parseArgs.
main(parsed, stdin, pbs) ==
    IF ~parsed.ok
    THEN [stdout |-> <<>>, stderr |-> parsed.stderr,
          exitCode |-> ExitFailure, pasteboards |-> pbs]
    ELSE CASE parsed.args.command = "list-types" -> cmdListTypes(parsed.args, pbs)
           [] parsed.args.command = "read-text" -> cmdReadText(parsed.args, pbs)
           [] parsed.args.command = "write-text" -> cmdWriteText(parsed.args, stdin, pbs)
           [] parsed.args.command = "read-image" -> cmdReadImage(parsed.args, pbs)
           [] parsed.args.command = "write-image" -> cmdWriteImage(parsed.args, stdin, pbs)
           [] parsed.args.command = "read" -> cmdRead(parsed.args, pbs)
           [] parsed.args.command = "write" -> cmdWrite(parsed.args, stdin, pbs)
           [] parsed.args.command = "clear" -> cmdClear(parsed.args, pbs)
           [] OTHER -> [stdout |-> <<>>, stderr |-> printError(UsageText),
                        exitCode |-> ExitFailure, pasteboards |-> pbs]

\* The program: parseArgs, then the switch.
pbhelper(argv, stdin, pbs) == main(parseArgs(argv), stdin, pbs)

----------------------------------------------------------------------------
(* The process bridge (src/pasteboard.ts).                                 *)

PBHELPER == "build/pbhelper"

\* pbArgs(pasteboard): an undefined or empty name adds no flag.
pbArgs(pasteboard) ==
    IF IsSome(pasteboard) /\ Get(pasteboard) # ""
    THEN <<"--pasteboard", Get(pasteboard)>>
    ELSE <<>>

\* What the bridge sees of a process that ran to its exit.
exited(run) ==
    [stdout |-> run.stdout, stderr |-> run.stderr,
     code |-> Some(run.exitCode), pasteboards |-> run.pasteboards]

\* One run of the adapter process.  `signal` says the process was ended by
\* a signal before it acted: it closes with no exit code and no output.
spawn(argv, stdin, signal, pbs) ==
    IF signal
    THEN [stdout |-> <<>>, stderr |-> <<>>, code |-> None, pasteboards |-> pbs]
    ELSE exited(pbhelper(argv, stdin, pbs))

\* The 'close' handler: resolve({stdout, stderr, exitCode: code ?? 1}).
onClose(argv, stdin, proc) ==
    [argv |-> argv, stdin |-> stdin, code |-> proc.code,
     pasteboards |-> proc.pasteboards,
     result |-> [stdout |-> proc.stdout, stderr |-> proc.stderr,
                 exitCode |-> IF IsSome(proc.code) THEN Get(proc.code) ELSE 1]]

\* What is written to the process's standard input before it is ended.
stdinBytes(stdinData) ==
    IF IsSome(stdinData) THEN BufferFromString(Get(stdinData)) ELSE <<>>

\* execPbHelper(args, stdinData)
execPbHelper(args, stdinData, signal, pbs) ==
    onClose(<<PBHELPER>> \o args, stdinBytes(stdinData),
            spawn(<<PBHELPER>> \o args, stdinBytes(stdinData), signal, pbs))

IsBlankChunk(c) == c \in {"", " ", "\n", "\t", "\r"}

RECURSIVE trimStart(_)
trimStart(text) ==
    IF text # <<>> /\ IsBlankChunk(Head(text)) THEN trimStart(Tail(text)) ELSE text

RECURSIVE trimEnd(_)
trimEnd(text) ==
    IF text # <<>> /\ IsBlankChunk(text[Len(text)])
    THEN trimEnd(SubSeq(text, 1, Len(text) - 1))
    ELSE text

\* String.prototype.trim()
trim(text) == trimEnd(trimStart(text))

\* The message of the Error checkResult throws.
errorMessage(trimmed, exitCode) ==
    IF trimmed # <<>> THEN trimmed
    ELSE <<"pbhelper exited with code ", ToString(exitCode)>>

\* checkResult throwing the stderr text as it is, untrimmed.
checkResultUntrimmed(result) ==
    IF result.exitCode # 0
    THEN Some(errorMessage(result.stderr, result.exitCode))
    ELSE None

\* checkResult(result): the Error it throws, None when it returns.
checkResult(result) ==
    IF result.exitCode # 0
    THEN Some(errorMessage(trim(result.stderr), result.exitCode))
    ELSE None

Resolved(value) == [status |-> "resolved", value |-> value, error |-> <<>>]

Rejected(error) == [status |-> "rejected", value |-> <<>>, error |-> error]

\* JSON.parse(result.stdout.toString()) in listTypes
parsedTypes(parsed) ==
    IF IsSome(parsed) THEN Resolved(Get(parsed)) ELSE Rejected(<<"SyntaxError">>)

\* What an operation returns once checkResult has returned.
returned(decode, stdout) ==
    CASE decode = "json" -> parsedTypes(JSONParse(stdout))
      [] decode = "string" -> Resolved(BufferToString(stdout))
      [] OTHER -> Resolved(<<>>)

thrown(err, decode, stdout) ==
    IF IsSome(err) THEN Rejected(Get(err)) ELSE returned(decode, stdout)

\* The tail every operation shares: checkResult(result), then the return.
settle(exec, decode) ==
    [exec |-> exec,
     outcome |-> thrown(checkResult(exec.result), decode, exec.result.stdout)]

listTypes(pasteboard, signal, pbs) ==
    settle(execPbHelper(<<"list-types">> \o pbArgs(pasteboard), None, signal, pbs),
           "json")

readText(pasteboard, signal, pbs) ==
    settle(execPbHelper(<<"read-text">> \o pbArgs(pasteboard), None, signal, pbs),
           "string")

writeText(text, pasteboard, signal, pbs) ==
    settle(execPbHelper(<<"write-text">> \o pbArgs(pasteboard), Some(text),
                        signal, pbs),
           "void")

\* A default parameter: format: string = "png".
formatOrDefault(format) == IF IsSome(format) THEN Get(format) ELSE "png"

readImage(pasteboard, format, signal, pbs) ==
    settle(execPbHelper(<<"read-image", "--format", formatOrDefault(format)>>
                           \o pbArgs(pasteboard), None, signal, pbs),
           "string")

writeImage(base64Data, pasteboard, format, signal, pbs) ==
    settle(execPbHelper(<<"write-image", "--format", formatOrDefault(format)>>
                           \o pbArgs(pasteboard), Some(base64Data), signal, pbs),
           "void")

readData(type, pasteboard, signal, pbs) ==
    settle(execPbHelper(<<"read", "--type", type>> \o pbArgs(pasteboard),
                        None, signal, pbs),
           "string")

writeData(type, data, isBase64, pasteboard, signal, pbs) ==
    settle(execPbHelper(<<"write", "--type", type>>
                           \o (IF isBase64 THEN <<"--base64">> ELSE <<>>)
                           \o pbArgs(pasteboard),
                        Some(data), signal, pbs),
           "void")

clear(pasteboard, signal, pbs) ==
    settle(execPbHelper(<<"clear">> \o pbArgs(pasteboard), None, signal, pbs),
           "void")

----------------------------------------------------------------------------
(* Inputs of the model.                                                    *)

MaxLen == 2

\* The most chunks the output of one process is delivered in.
MaxChunks == 2

\* A line feed (ASCII, whitespace) and U+00E9 (two bytes in UTF-8).
Scalars == {10, 233}

Texts == UNION {[1..n -> Scalars] : n \in 0..MaxLen}

Pasteboards == {"general", "find"}

\* The pasteboard parameter of a call: left out, or the general pasteboard
\* by name.
PasteboardParams == {None, Some("general")}

CustomType == "com.test.custom"

WriteTypes == {NSPasteboardTypeString, CustomType}

ReadTypes == WriteTypes \cup {NSPasteboardTypeTIFF}

FormatParams == {None, Some("png"), Some("tiff")}

InvalidUTF8 == <<255>>

\* Payloads of the typed write: each text as it is; with the base64 flag,
\* each text base64-encoded, bytes that are no text base64-encoded, a
\* base64 string followed by a line feed, and a string that is not base64.
WriteDataInputs ==
    {[data |-> s, isBase64 |-> FALSE] : s \in Texts}
    \cup {[data |-> Base64Encode(UTF8Encode(s)), isBase64 |-> TRUE] : s \in Texts}
    \cup {[data |-> Base64Encode(InvalidUTF8), isBase64 |-> TRUE],
          [data |-> Base64Encode(UTF8Encode(<<233>>)) \o <<10>>, isBase64 |-> TRUE],
          [data |-> <<233>>, isBase64 |-> TRUE]}

PNGImage == PNGSignature \o <<7>>

TIFFImage == TIFFLittleEndian \o <<200>>

\* Payloads of write-image: two images, one with surrounding whitespace,
\* base64 of bytes that are no image, and text that is not base64.
WriteImageInputs ==
    {Base64Encode(PNGImage), <<10>> \o Base64Encode(TIFFImage) \o <<10>>,
     Base64Encode(<<65>>), <<233>>}

\* Command lines and standard inputs given to the adapter directly.
DirectArgv ==
    {<<PBHELPER>>, <<PBHELPER, "paste">>, <<PBHELPER, "read">>,
     <<PBHELPER, "write">>, <<PBHELPER, "clear", "--pasteboard">>,
     <<PBHELPER, "read", "--type">>, <<PBHELPER, "read-image", "--format">>,
     <<PBHELPER, "read-text", "--verbose">>, <<PBHELPER, "clear", "--base64">>,
     <<PBHELPER, "write-text">>, <<PBHELPER, "write-image">>,
     <<PBHELPER, "write", "--type", CustomType, "--base64">>,
     <<PBHELPER, "write", "--type", CustomType>>}

DirectStdin == {<<>>, InvalidUTF8}

----------------------------------------------------------------------------
(* State.                                                                  *)
(*   pasteboards  the contents of each pasteboard                          *)
(*   call         the last call: its parameters, the adapter run and how   *)
(*                the bridge settled it                                    *)
(*   lastWrite    per pasteboard, the last run that exited 0 from a        *)
(*                command that changes the pasteboard                      *)

\* A run ended by a signal is modelled for calls with default parameters
\* only: what the bridge does with it does not depend on them.
SignalCase(signal, defaults) == signal => defaults

\* The typed write and the image write name the pasteboard with one payload
\* each; every other operation names it with all of its inputs.
NamedCase(pasteboard, defaults) == IsSome(pasteboard) => defaults

\* The bridge calls that can be in flight at once.
CallIds == {1, 2}

\* A promise that is not settled yet.
Pending == [status |-> "pending", value |-> <<>>, error |-> <<>>]

\* What the bridge holds of a call: the closure of execPbHelper.
\*   spawned       how many processes the call has spawned
\*   stdinLog      the calls made on proc.stdin, in order
\*   stdoutChunks  the chunks the 'data' handler has collected
\*   stderr        the text the stderr 'data' handler has collected
\*   events        the 'error' and 'close' events delivered so far
\*   promise       the promise execPbHelper returned
IdleBridge ==
    [state |-> "idle", fn |-> "none", decode |-> "void", argv |-> <<>>,
     stdinData |-> None, spawned |-> 0, stdinLog |-> <<>>,
     stdoutChunks |-> <<>>, stderr |-> <<>>, events |-> <<>>,
     promise |-> Pending]

\* An adapter process.
\*   pc       none, failed (it could not be started), start, stdin, clear,
\*            set, exited, closed
\*   sets     the representations still to be set, in order
\*   out,err  what it has written to its pipes and the bridge has not read
\*   emitted  everything it has written to standard output
NoProc ==
    [pc |-> "none", spawnError |-> None, argv |-> <<>>, target |-> "general",
     sets |-> <<>>, out |-> <<>>, err |-> <<>>, emitted |-> <<>>, code |-> None]


Mutating == {"write-text", "write-image", "write", "clear"}

NoWrite ==
    [cmd |-> "none", type |-> None, format |-> "png", isBase64 |-> FALSE,
     data |-> None, stdin |-> <<>>]

NoCall ==
    [fn |-> "none", pasteboard |-> None, type |-> None, format |-> None,
     isBase64 |-> FALSE, data |-> None, signal |-> FALSE,
     argv |-> <<>>, stdin |-> <<>>, target |-> "general", typesBefore |-> <<>>,
     code |-> None,
     result |-> [stdout |-> <<>>, stderr |-> <<>>, exitCode |-> 0],
     outcome |-> [status |-> "none", value |-> <<>>, error |-> <<>>]]

Init ==
    /\ pasteboards = [p \in Pasteboards |-> <<>>]
    /\ call = NoCall
    /\ lastWrite = [p \in Pasteboards |-> NoWrite]
    /\ bridge = [c \in CallIds |-> IdleBridge]
    /\ procs = [c \in CallIds |-> NoProc]
    /\ owner = [p \in Pasteboards |-> None]

\* The record of a call that addressed `target` with the parsed arguments.
Recorded(fn, pasteboard, type, format, isBase64, data, signal, r, parsed, target) ==
    /\ pasteboards' = r.exec.pasteboards
    /\ call' = [fn |-> fn, pasteboard |-> pasteboard, type |-> type,
                format |-> format, isBase64 |-> isBase64, data |-> data,
                signal |-> signal, argv |-> r.exec.argv, stdin |-> r.exec.stdin,
                target |-> target, typesBefore |-> Types(pasteboards[target]),
                code |-> r.exec.code, result |-> r.exec.result,
                outcome |-> r.outcome]
    /\ lastWrite' =
          IF parsed.ok /\ r.exec.code = Some(0) /\ parsed.args.command \in Mutating
          THEN [lastWrite EXCEPT ![target] =
                  [cmd |-> parsed.args.command, type |-> parsed.args.type,
                   format |-> parsed.args.format,
                   isBase64 |-> parsed.args.isBase64,
                   data |-> data, stdin |-> r.exec.stdin]]
          ELSE lastWrite
    /\ UNCHANGED <<bridge, procs, owner>>

Parsed(fn, pasteboard, type, format, isBase64, data, signal, r, parsed) ==
    Recorded(fn, pasteboard, type, format, isBase64, data, signal, r, parsed,
             getPasteboard(parsed.args.pasteboard))

\* The state after a call: the pasteboards as the adapter left them, and
\* the record of the call.
Settled(fn, pasteboard, type, format, isBase64, data, signal, r) ==
    Parsed(fn, pasteboard, type, format, isBase64, data, signal, r,
           parseArgs(r.exec.argv))

ListTypes ==
    \E pasteboard \in PasteboardParams, signal \in BOOLEAN :
        /\ SignalCase(signal, pasteboard = None)
        /\ Settled("listTypes", pasteboard, None, None, FALSE, None, signal,
                   listTypes(pasteboard, signal, pasteboards))

ReadText ==
    \E pasteboard \in PasteboardParams, signal \in BOOLEAN :
        /\ SignalCase(signal, pasteboard = None)
        /\ Settled("readText", pasteboard, None, None, FALSE, None, signal,
                   readText(pasteboard, signal, pasteboards))

WriteText ==
    \E text \in Texts, pasteboard \in PasteboardParams, signal \in BOOLEAN :
        /\ SignalCase(signal, pasteboard = None /\ text = <<>>)
        /\ Settled("writeText", pasteboard, None, None, FALSE, Some(text), signal,
                   writeText(text, pasteboard, signal, pasteboards))

ReadImage ==
    \E pasteboard \in PasteboardParams, format \in FormatParams, signal \in BOOLEAN :
        /\ SignalCase(signal, pasteboard = None /\ format = None)
        /\ Settled("readImage", pasteboard, None, format, FALSE, None, signal,
                   readImage(pasteboard, format, signal, pasteboards))

WriteImage ==
    \E base64Data \in WriteImageInputs, pasteboard \in PasteboardParams,
       format \in FormatParams, signal \in BOOLEAN :
        /\ SignalCase(signal, pasteboard = None /\ format = None
                                 /\ base64Data = Base64Encode(PNGImage))
        /\ NamedCase(pasteboard, base64Data = Base64Encode(PNGImage))
        /\ Settled("writeImage", pasteboard, None, format, FALSE, Some(base64Data),
                   signal,
                   writeImage(base64Data, pasteboard, format, signal, pasteboards))

ReadData ==
    \E type \in ReadTypes, pasteboard \in PasteboardParams, signal \in BOOLEAN :
        /\ SignalCase(signal, pasteboard = None /\ type = CustomType)
        /\ Settled("readData", pasteboard, Some(type), None, FALSE, None, signal,
                   readData(type, pasteboard, signal, pasteboards))

WriteData ==
    \E type \in WriteTypes, input \in WriteDataInputs,
       pasteboard \in PasteboardParams, signal \in BOOLEAN :
        /\ SignalCase(signal, pasteboard = None /\ type = CustomType
                                 /\ input.data = <<>> /\ ~input.isBase64)
        /\ NamedCase(pasteboard, input.data = <<233>>)
        /\ Settled("writeData", pasteboard, Some(type), None, input.isBase64,
                   Some(input.data), signal,
                   writeData(type, input.data, input.isBase64, pasteboard, signal,
                             pasteboards))

Clear ==
    \E pasteboard \in PasteboardParams, signal \in BOOLEAN :
        /\ SignalCase(signal, pasteboard = None)
        /\ Settled("clear", pasteboard, None, None, FALSE, None, signal,
                   clear(pasteboard, signal, pasteboards))

\* A run of the adapter from a command line, with no bridge around it.
direct(argv, stdin, pbs) ==
    [exec |-> onClose(argv, stdin, spawn(argv, stdin, FALSE, pbs)),
     outcome |-> [status |-> "none", value |-> <<>>, error |-> <<>>]]

RunPbhelper ==
    \E argv \in DirectArgv, stdin \in DirectStdin :
        Settled("pbhelper", None, None, None, FALSE, None, FALSE,
                direct(argv, stdin, pasteboards))

Next ==
    \/ ListTypes
    \/ ReadText
    \/ WriteText
    \/ ReadImage
    \/ WriteImage
    \/ ReadData
    \/ WriteData
    \/ Clear
    \/ RunPbhelper

Spec == Init /\ [][Next]_vars

----------------------------------------------------------------------------
----------------------------------------------------------------------------
(* The pasteboards are shared with every other application: between two    *)
(* runs of the adapter another owner can replace the contents of the       *)
(* general pasteboard.                                                     *)

\* Bytes that are no image.
NoImageBytes == <<65>>

Item(type, data) == [type |-> type, data |-> data]

\* What another application leaves on the pasteboard: images in one or
\* both encodings, decodable or not, with equal or different pixels.
ForeignContents ==
    {<<Item(NSPasteboardTypeTIFF, NoImageBytes), Item(NSPasteboardTypePNG, PNGImage)>>,
     <<Item(NSPasteboardTypePNG, PNGImage)>>,
     <<Item(NSPasteboardTypeTIFF, TIFFImage), Item(NSPasteboardTypePNG, PNGImage)>>,
     <<Item(NSPasteboardTypePNG, PNGImage), Item(NSPasteboardTypeTIFF, TIFFImage)>>,
     <<Item(NSPasteboardTypeTIFF, NoImageBytes)>>,
     <<Item(NSPasteboardTypeTIFF, NoImageBytes), Item(NSPasteboardTypePNG, NoImageBytes)>>,
     <<Item(NSPasteboardTypeString, <<233>>), Item(NSPasteboardTypePNG, NoImageBytes)>>}

ForeignWrite == [NoWrite EXCEPT !.cmd = "foreign"]

OtherApplication ==
    \E items \in ForeignContents :
        /\ pasteboards' = [pasteboards EXCEPT !["general"] = items]
        /\ lastWrite' = [lastWrite EXCEPT !["general"] = ForeignWrite]
        /\ call' = NoCall
        /\ UNCHANGED <<bridge, procs, owner>>

NextShared ==
    \/ Next
    \/ OtherApplication

SpecShared == Init /\ [][NextShared]_vars


----------------------------------------------------------------------------
(* Calls that name their pasteboard: the general pasteboard, the four      *)
(* well-known ones and a custom one.                                       *)

\* The pasteboards of the system, by what getPasteboard resolves a name to.
NamedPasteboards ==
    {"general", "find", "font", "ruler", "drag", "mine", "--base64", "--type"}

\* The pasteboard parameter of a bridge call: left out, empty, or a name.
NameParams ==
    {None, Some(""), Some("general"), Some("find"), Some("font"), Some("ruler"),
     Some("drag"), Some("mine")}

InitNamed ==
    /\ pasteboards = [p \in NamedPasteboards |-> <<>>]
    /\ call = NoCall
    /\ lastWrite = [p \in NamedPasteboards |-> NoWrite]
    /\ bridge = [c \in CallIds |-> IdleBridge]
    /\ procs = [c \in CallIds |-> NoProc]
    /\ owner = [p \in NamedPasteboards |-> None]

\* Every name is cleared; the text write names the general pasteboard, one
\* well-known pasteboard and the custom one; the image write and the typed
\* write name the general pasteboard and the custom one.
WriteTextNamed ==
    \E pasteboard \in NameParams \ {Some("font"), Some("ruler"), Some("drag")} :
        Settled("writeText", pasteboard, None, None, FALSE, Some(<<233>>), FALSE,
                writeText(<<233>>, pasteboard, FALSE, pasteboards))

WriteImageNamed ==
    \E pasteboard \in {None, Some(""), Some("mine")} :
        Settled("writeImage", pasteboard, None, None, FALSE,
                Some(Base64Encode(PNGImage)), FALSE,
                writeImage(Base64Encode(PNGImage), pasteboard, None, FALSE,
                           pasteboards))

WriteDataNamed ==
    \E pasteboard \in {None, Some(""), Some("mine")} :
        Settled("writeData", pasteboard, Some(CustomType), None, FALSE,
                Some(<<233, 10>>), FALSE,
                writeData(CustomType, <<233, 10>>, FALSE, pasteboard, FALSE,
                          pasteboards))

ClearNamed ==
    \E pasteboard \in NameParams :
        Settled("clear", pasteboard, None, None, FALSE, None, FALSE,
                clear(pasteboard, FALSE, pasteboards))

NextNamed ==
    \/ WriteTextNamed
    \/ WriteImageNamed
    \/ WriteDataNamed
    \/ ClearNamed

SpecNamed == InitNamed /\ [][NextNamed]_vars

----------------------------------------------------------------------------
(* One bridge call on empty pasteboards, for every choice of its           *)
(* parameters: names, types and formats that are empty, ordinary, or       *)
(* spelled like a flag of the adapter.                                     *)

ArgvNames ==
    {None, Some(""), Some("general"), Some("find"), Some("mine"),
     Some("--base64"), Some("--type")}

ArgvTypes == {CustomType, "", "--base64", "--type", "--pasteboard"}

ArgvFormats ==
    {None, Some("png"), Some("tiff"), Some(""), Some("--base64"), Some("--format")}

NextArgv ==
    /\ call = NoCall
    /\ \E pasteboard \in ArgvNames, type \in ArgvTypes, format \in ArgvFormats,
          isBase64 \in BOOLEAN :
          \/ Settled("listTypes", pasteboard, None, None, FALSE, None, FALSE,
                     listTypes(pasteboard, FALSE, pasteboards))
          \/ Settled("readText", pasteboard, None, None, FALSE, None, FALSE,
                     readText(pasteboard, FALSE, pasteboards))
          \/ Settled("writeText", pasteboard, None, None, FALSE, Some(<<233>>),
                     FALSE, writeText(<<233>>, pasteboard, FALSE, pasteboards))
          \/ Settled("readImage", pasteboard, None, format, FALSE, None, FALSE,
                     readImage(pasteboard, format, FALSE, pasteboards))
          \/ Settled("writeImage", pasteboard, None, format, FALSE,
                     Some(Base64Encode(PNGImage)), FALSE,
                     writeImage(Base64Encode(PNGImage), pasteboard, format, FALSE,
                                pasteboards))
          \/ Settled("readData", pasteboard, Some(type), None, FALSE, None, FALSE,
                     readData(type, pasteboard, FALSE, pasteboards))
          \/ Settled("writeData", pasteboard, Some(type), None, isBase64,
                     Some(Base64Encode(NoImageBytes)), FALSE,
                     writeData(type, Base64Encode(NoImageBytes), isBase64,
                               pasteboard, FALSE, pasteboards))
          \/ Settled("clear", pasteboard, None, None, FALSE, None, FALSE,
                     clear(pasteboard, FALSE, pasteboards))

SpecArgv == InitNamed /\ [][NextArgv]_vars

----------------------------------------------------------------------------
(* The bridge and the adapter step by step: a call is the synchronous part *)
(* of execPbHelper followed by the events of its child process; the        *)
(* adapter process parses, drains standard input, validates, clears, sets  *)
(* one representation at a time and exits.  Two calls can be in flight,    *)
(* their processes interleaved in any order on the shared pasteboard.      *)

\* The text the general pasteboard holds before the calls.
HeldText == <<10>>

\* The calls made, as the bridge functions build them: the arguments, the
\* payload and how the output is decoded.
Requests ==
    {[fn |-> "listTypes", args |-> <<"list-types">> \o pbArgs(None),
      stdinData |-> None, decode |-> "json"],
     [fn |-> "readText", args |-> <<"read-text">> \o pbArgs(None),
      stdinData |-> None, decode |-> "string"],
     [fn |-> "writeText", args |-> <<"write-text">> \o pbArgs(None),
      stdinData |-> Some(<<233>>), decode |-> "void"],
     [fn |-> "writeText", args |-> <<"write-text">> \o pbArgs(None),
      stdinData |-> Some(<<>>), decode |-> "void"],
     [fn |-> "writeImage",
      args |-> <<"write-image", "--format", "png">> \o pbArgs(None),
      stdinData |-> Some(Base64Encode(PNGImage)), decode |-> "void"],
     [fn |-> "writeImage",
      args |-> <<"write-image", "--format", "tiff">> \o pbArgs(None),
      stdinData |-> Some(<<233>>), decode |-> "void"],
     [fn |-> "writeData",
      args |-> <<"write", "--type", CustomType>> \o pbArgs(None),
      stdinData |-> Some(<<233, 10>>), decode |-> "void"],
     [fn |-> "clear", args |-> <<"clear">> \o pbArgs(None),
      stdinData |-> None, decode |-> "void"]}

\* spawn(PBHELPER, args) starts the process, or fails: the executable is
\* missing or may not be executed.
SpawnOutcomes ==
    {None, Some(<<"spawn ", PBHELPER, " ENOENT">>),
     Some(<<"spawn ", PBHELPER, " EACCES">>)}

\* The code of a 'close' event that follows a spawn 'error' event.
FailedCloseCodes == {None, Some(-2)}

\* The child process spawn returns.
spawnProcess(argv, failure) ==
    IF IsSome(failure)
    THEN [NoProc EXCEPT !.pc = "failed", !.spawnError = failure, !.argv = argv]
    ELSE [NoProc EXCEPT !.pc = "start", !.argv = argv]

\* execPbHelper ending standard input only when it has no payload.
stdinCallsEndingEmpty(stdinData) ==
    IF IsSome(stdinData)
    THEN <<[op |-> "write", data |-> BufferFromString(Get(stdinData))]>>
    ELSE <<[op |-> "end", data |-> <<>>]>>

\* if (stdinData !== undefined) proc.stdin.write(stdinData); proc.stdin.end()
stdinCalls(stdinData) ==
    (IF IsSome(stdinData)
     THEN <<[op |-> "write", data |-> BufferFromString(Get(stdinData))]>>
     ELSE <<>>)
        \o <<[op |-> "end", data |-> <<>>]>>

\* The synchronous part of execPbHelper: one spawn, the handlers, the
\* calls on proc.stdin.
execStart(b, request) ==
    [b EXCEPT !.state = "called", !.fn = request.fn, !.decode = request.decode,
              !.argv = <<PBHELPER>> \o request.args,
              !.stdinData = request.stdinData,
              !.spawned = @ + 1,
              !.stdinLog = @ \o stdinCalls(request.stdinData)]

\* resolve(value) and reject(error) settle a pending promise and leave a
\* settled one as it is.
resolvePromise(promise, value) ==
    IF promise.status = "pending"
    THEN [status |-> "resolved", value |-> value, error |-> <<>>]
    ELSE promise

rejectPromise(promise, error) ==
    IF promise.status = "pending"
    THEN [status |-> "rejected", value |-> <<>>, error |-> error]
    ELSE promise

\* execPbHelper with no 'error' handler.
onErrorIgnored(b, message) == [b EXCEPT !.events = Append(@, "error")]

\* proc.on("error", ...)
onError(b, message) ==
    [b EXCEPT !.events = Append(@, "error"),
              !.promise = rejectPromise(@, <<"Failed to spawn pbhelper: ">> \o message)]

\* The stdout 'data' handler keeping the latest chunk only.
onStdoutDataKeepingLast(b, chunk) == [b EXCEPT !.stdoutChunks = <<chunk>>]

\* proc.stdout.on("data", ...)
onStdoutData(b, chunk) == [b EXCEPT !.stdoutChunks = Append(@, chunk)]

\* proc.stderr.on("data", ...)
onStderrData(b, chunk) == [b EXCEPT !.stderr = @ \o chunk]

\* Buffer.concat(stdoutChunks)
RECURSIVE BufferConcat(_)
BufferConcat(chunks) ==
    IF chunks = <<>> THEN <<>> ELSE Head(chunks) \o BufferConcat(Tail(chunks))

\* The bytes written to proc.stdin, and whether it has been ended.
RECURSIVE StdinWritten(_)
StdinWritten(log) ==
    IF log = <<>> THEN <<>> ELSE Head(log).data \o StdinWritten(Tail(log))

StdinEnded(log) == \E i \in DOMAIN log : log[i].op = "end"

\* proc.on("close", ...)
onCloseEvent(b, code) ==
    [b EXCEPT !.events = Append(@, "close"),
              !.promise =
                  resolvePromise(@,
                      onClose(b.argv, StdinWritten(b.stdinLog),
                              [stdout |-> BufferConcat(b.stdoutChunks),
                               stderr |-> b.stderr, code |-> code,
                               pasteboards |-> <<>>]).result)]

\* What the bridge function does with the promise it awaits.
awaited(promise, decode) ==
    IF promise.status = "pending" THEN Pending
    ELSE IF promise.status = "rejected" THEN Rejected(promise.error)
    ELSE thrown(checkResult(promise.value), decode, promise.value.stdout)

\* The outcome of call c for its caller.
Outcome(c) == awaited(bridge[c].promise, bridge[c].decode)

\* The commands that call readStdin, once their arguments are accepted.
ReadsStdin(parsed) ==
    /\ parsed.ok
    /\ \/ parsed.args.command \in {"write-text", "write-image"}
       \/ parsed.args.command = "write" /\ IsSome(parsed.args.type)

EmptyPasteboards == [p \in Pasteboards |-> <<>>]

\* The process has ended: its output is in its pipes.
finished(p, run) ==
    [p EXCEPT !.pc = "exited", !.out = run.stdout, !.emitted = run.stdout,
              !.err = run.stderr, !.code = Some(run.exitCode)]

\* A process that has its arguments: it waits for standard input, goes on
\* to clear, or runs a command that only reads and ends.
started(p, parsed, pbs) ==
    IF ReadsStdin(parsed)
    THEN [p EXCEPT !.pc = "stdin", !.target = getPasteboard(parsed.args.pasteboard)]
    ELSE IF parsed.ok /\ parsed.args.command = "clear"
    THEN [p EXCEPT !.pc = "clear", !.target = getPasteboard(parsed.args.pasteboard)]
    ELSE finished(p, main(parsed, <<>>, pbs))

\* A write command that has drained standard input: it ends with an error,
\* or goes on to clear and to set what it validated.
drained(p, run) ==
    IF run.exitCode # ExitSuccess THEN finished(p, run)
    ELSE [p EXCEPT !.pc = "clear", !.sets = run.pasteboards[p.target]]

\* What each adapter process makes of the standard input its call sends:
\* the error it ends with, or the representations it goes on to set.
validated ==
    [k \in {<<(<<PBHELPER>> \o r.args), StdinWritten(stdinCalls(r.stdinData))>> :
                r \in Requests}
        |-> pbhelper(k[1], k[2], EmptyPasteboards)]

InitProc ==
    /\ pasteboards =
          [p \in Pasteboards |->
              IF p = "general" THEN SetString(<<>>, HeldText, NSPasteboardTypeString)
              ELSE <<>>]
    /\ call = NoCall
    /\ lastWrite = [p \in Pasteboards |-> NoWrite]
    /\ bridge = [c \in CallIds |-> IdleBridge]
    /\ procs = [c \in CallIds |-> NoProc]
    /\ owner = [p \in Pasteboards |-> None]

\* A bridge function is called: execPbHelper runs up to its return.
StartCall(c) ==
    /\ bridge[c].state = "idle"
    /\ \E request \in Requests, failure \in SpawnOutcomes :
          /\ bridge' = [bridge EXCEPT ![c] = execStart(@, request)]
          /\ procs' = [procs EXCEPT
                          ![c] = spawnProcess(<<PBHELPER>> \o request.args, failure)]
    /\ UNCHANGED <<pasteboards, call, lastWrite, owner>>

\* The 'error' event of a process that could not be started.
SpawnError(c) ==
    /\ procs[c].pc = "failed"
    /\ bridge[c].events = <<>>
    /\ bridge' = [bridge EXCEPT ![c] = onError(@, Get(procs[c].spawnError))]
    /\ UNCHANGED <<pasteboards, call, lastWrite, procs, owner>>

\* parseArgs and the switch on the command; read-text and list-types read
\* the pasteboard here.
ProcStart(c) ==
    /\ procs[c].pc = "start"
    /\ \E parsed \in {parseArgs(procs[c].argv)} :
          procs' = [procs EXCEPT ![c] = started(@, parsed, pasteboards)]
    /\ UNCHANGED <<pasteboards, call, lastWrite, bridge, owner>>

\* readStdin returns at end-of-file; the command validates what it read.
ProcStdin(c) ==
    /\ procs[c].pc = "stdin"
    /\ StdinEnded(bridge[c].stdinLog)
    /\ procs' = [procs EXCEPT
                    ![c] = drained(@, validated[<<@.argv,
                                                  StdinWritten(bridge[c].stdinLog)>>])]
    /\ UNCHANGED <<pasteboards, call, lastWrite, bridge, owner>>

\* pb.clearContents(): the process becomes the owner of the pasteboard.
ProcClear(c) ==
    /\ procs[c].pc = "clear"
    /\ pasteboards' = [pasteboards EXCEPT ![procs[c].target] = ClearContents(@)]
    /\ owner' = [owner EXCEPT ![procs[c].target] = Some(c)]
    /\ procs' = [procs EXCEPT ![c].pc = "set"]
    /\ UNCHANGED <<call, lastWrite, bridge>>

\* pb.setString / pb.setData of the next representation.  The result is
\* ignored; once another process has cleared the pasteboard the call is
\* applied or refused.
ProcSet(c) ==
    /\ procs[c].pc = "set"
    /\ procs[c].sets # <<>>
    /\ \E applied \in BOOLEAN :
          /\ owner[procs[c].target] = Some(c) => applied
          /\ pasteboards' =
                IF applied
                THEN [pasteboards EXCEPT
                         ![procs[c].target] =
                             SetData(@, Head(procs[c].sets).data,
                                     Head(procs[c].sets).type)]
                ELSE pasteboards
    /\ procs' = [procs EXCEPT ![c].sets = Tail(@)]
    /\ UNCHANGED <<call, lastWrite, bridge, owner>>

\* The command returns and the process exits with code 0.
ProcReturn(c) ==
    /\ procs[c].pc = "set"
    /\ procs[c].sets = <<>>
    /\ procs' = [procs EXCEPT ![c] = finished(@, exitOK(<<>>, pasteboards))]
    /\ UNCHANGED <<pasteboards, call, lastWrite, bridge, owner>>

\* A 'data' event of stdout: the next bytes of the pipe, in at most
\* MaxChunks chunks.
StdoutData(c) ==
    /\ procs[c].out # <<>>
    /\ \E k \in 1..Len(procs[c].out) :
          /\ Len(bridge[c].stdoutChunks) + 1 >= MaxChunks => k = Len(procs[c].out)
          /\ bridge' = [bridge EXCEPT
                           ![c] = onStdoutData(@, SubSeq(procs[c].out, 1, k))]
          /\ procs' = [procs EXCEPT
                          ![c].out = SubSeq(@, k + 1, Len(@))]
    /\ UNCHANGED <<pasteboards, call, lastWrite, owner>>

\* A 'data' event of stderr.
StderrData(c) ==
    /\ procs[c].err # <<>>
    /\ bridge' = [bridge EXCEPT ![c] = onStderrData(@, procs[c].err)]
    /\ procs' = [procs EXCEPT ![c].err = <<>>]
    /\ UNCHANGED <<pasteboards, call, lastWrite, owner>>

\* The 'close' event: the process has exited and its pipes are drained.
Close(c) ==
    /\ procs[c].pc = "exited"
    /\ procs[c].out = <<>> /\ procs[c].err = <<>>
    /\ bridge' = [bridge EXCEPT ![c] = onCloseEvent(@, procs[c].code)]
    /\ procs' = [procs EXCEPT ![c].pc = "closed"]
    /\ UNCHANGED <<pasteboards, call, lastWrite, owner>>

\* A 'close' event after the 'error' event of a failed spawn.
CloseAfterError(c) ==
    /\ procs[c].pc = "failed"
    /\ bridge[c].events = <<"error">>
    /\ \E code \in FailedCloseCodes :
          bridge' = [bridge EXCEPT ![c] = onCloseEvent(@, code)]
    /\ procs' = [procs EXCEPT ![c].pc = "closed"]
    /\ UNCHANGED <<pasteboards, call, lastWrite, owner>>

NextProc ==
    \E c \in CallIds :
        \/ StartCall(c)
        \/ SpawnError(c)
        \/ ProcStart(c)
        \/ ProcStdin(c)
        \/ ProcClear(c)
        \/ ProcSet(c)
        \/ ProcReturn(c)
        \/ StdoutData(c)
        \/ StderrData(c)
        \/ Close(c)
        \/ CloseAfterError(c)

SpecProc == InitProc /\ [][NextProc]_vars


\* The steps of call c that the operating system and Node's event loop
\* take without the caller: a runnable process runs, a pending event is
\* delivered.
Progress(c) ==
    \/ SpawnError(c)
    \/ ProcStart(c)
    \/ ProcStdin(c)
    \/ ProcClear(c)
    \/ ProcSet(c)
    \/ ProcReturn(c)
    \/ StdoutData(c)
    \/ StderrData(c)
    \/ Close(c)

FairSpecProc == SpecProc /\ \A c \in CallIds : WF_vars(Progress(c))


(* Vocabulary of the properties.                                           *)

Range(f) == {f[i] : i \in DOMAIN f}

BridgeFns ==
    {"listTypes", "readText", "writeText", "readImage", "writeImage",
     "readData", "writeData", "clear"}

\* The last call went through the bridge and its process ran to its exit.
BridgeRan == call.fn \in BridgeFns /\ ~call.signal

\* The last call ran the adapter to its exit, through the bridge or not.
AdapterRan == call.fn # "none" /\ ~call.signal

\* The contents of the pasteboard the last call addressed.
TargetItems == pasteboards[call.target]

\* The last successful change of the pasteboard the last call addressed.
TargetWrite == lastWrite[call.target]

HoldsType(items, type) == \E i \in DOMAIN items : items[i].type = type

\* The format a bridge call asked for.
CallFormat == IF call.format = None THEN "png" ELSE Get(call.format)

----------------------------------------------------------------------------
\* C1: text round trip -- a read-text that follows a successful write-text
\* of s on the same pasteboard, with no other write or clear in between,
\* resolves to exactly s: nothing added, nothing trimmed.
C1_TextRoundTrip ==
    (BridgeRan /\ call.fn = "readText" /\ TargetWrite.cmd = "write-text")
        => /\ call.outcome.status = "resolved"
           /\ call.code = Some(0)
           /\ IsSome(TargetWrite.data) => call.outcome.value = Get(TargetWrite.data)
           /\ call.result.stdout = TargetWrite.stdin

C1_Witness ==
    /\ BridgeRan /\ call.fn = "readText"
    /\ TargetWrite.cmd = "write-text"
    /\ TargetWrite.data = Some(<<233, 10>>)
    /\ call.outcome = Resolved(<<233, 10>>)

\* C2: replace semantics -- after a successful write-text, write-image or
\* typed write the pasteboard holds only types that write set, whatever it
\* held before; list-types after a write-image does not name plain text.
C2_ReplaceSemantics ==
    /\ (AdapterRan /\ call.code = Some(0) /\ call.fn = "writeText")
          => Range(Types(TargetItems)) \subseteq {NSPasteboardTypeString}
    /\ (AdapterRan /\ call.code = Some(0) /\ call.fn = "writeImage")
          => Range(Types(TargetItems))
                \subseteq {NSPasteboardTypeTIFF, NSPasteboardTypePNG}
    /\ (AdapterRan /\ call.code = Some(0) /\ call.fn = "writeData")
          => Range(Types(TargetItems)) \subseteq {Get(call.type)}
    /\ (AdapterRan /\ call.code = Some(0) /\ call.fn = "pbhelper"
            /\ Len(call.argv) >= 2 /\ call.argv[2] = "write-text")
          => Range(Types(TargetItems)) \subseteq {NSPasteboardTypeString}
    /\ (AdapterRan /\ call.code = Some(0) /\ call.fn = "pbhelper"
            /\ Len(call.argv) >= 4 /\ call.argv[2] = "write"
            /\ call.argv[3] = "--type")
          => Range(Types(TargetItems)) \subseteq {call.argv[4]}
    /\ (BridgeRan /\ call.fn = "listTypes" /\ TargetWrite.cmd = "write-image")
          => /\ call.outcome.status = "resolved"
             /\ NSPasteboardTypeString \notin Range(call.outcome.value)

C2_Witness ==
    /\ BridgeRan /\ call.fn = "writeImage"
    /\ call.outcome.status = "resolved"
    /\ NSPasteboardTypeString \in Range(call.typesBefore)
    /\ Types(TargetItems) = <<NSPasteboardTypeTIFF, NSPasteboardTypePNG>>

\* C3: empty-pasteboard failures -- after a clear with no later write,
\* read-text, read-image (either format) and the typed read (any type) are
\* rejected and the adapter, when it ran, exited non-zero.
C3_EmptyPasteboardFailures ==
    (call.fn \in {"readText", "readImage", "readData"} /\ TargetWrite.cmd = "clear")
        => /\ call.outcome.status = "rejected"
           /\ call.code # Some(0)
           /\ ~call.signal => (IsSome(call.code) /\ call.result.stdout = <<>>)

C3_Witness ==
    /\ BridgeRan /\ call.fn = "readImage" /\ call.format = Some("tiff")
    /\ TargetWrite.cmd = "clear"
    /\ call.outcome = Rejected(<<"No image on pasteboard">>)

\* C4: clear idempotence -- clear never fails whatever the pasteboard
\* holds, it leaves the pasteboard empty, and list-types after one clear or
\* several returns the empty collection.
C4_ClearIdempotence ==
    /\ (BridgeRan /\ call.fn = "clear")
          => /\ call.code = Some(0)
             /\ call.outcome.status = "resolved"
             /\ TargetItems = <<>>
    /\ (AdapterRan /\ call.fn = "pbhelper"
            /\ call.argv \in {<<PBHELPER, "clear">>, <<PBHELPER, "clear", "--base64">>})
          => (call.code = Some(0) /\ TargetItems = <<>>)
    /\ (BridgeRan /\ call.fn = "listTypes" /\ TargetWrite.cmd = "clear")
          => call.outcome = Resolved(<<>>)

C4_Witness ==
    /\ BridgeRan /\ call.fn = "clear"
    /\ call.typesBefore = <<>>
    /\ TargetWrite.cmd = "clear"
    /\ call.outcome.status = "resolved"

\* C5: type enumeration reflects writes -- list-types after a successful
\* write-text names the plain-text type; after a successful write-image,
\* with either format, it names the TIFF type.
C5_TypeEnumeration ==
    /\ (BridgeRan /\ call.fn = "listTypes" /\ TargetWrite.cmd = "write-text")
          => /\ call.outcome.status = "resolved"
             /\ NSPasteboardTypeString \in Range(call.outcome.value)
    /\ (BridgeRan /\ call.fn = "listTypes" /\ TargetWrite.cmd = "write-image")
          => /\ call.outcome.status = "resolved"
             /\ NSPasteboardTypeTIFF \in Range(call.outcome.value)

C5_Witness ==
    /\ BridgeRan /\ call.fn = "listTypes"
    /\ TargetWrite.cmd = "write-image" /\ TargetWrite.format = "png"
    /\ call.outcome = Resolved(<<NSPasteboardTypeTIFF, NSPasteboardTypePNG>>)

\* C6: dual-format image write -- after a successful write-image with
\* format f the pasteboard holds a PNG representation exactly when f is png;
\* with f = tiff it holds the TIFF representation and no PNG one.
C6_DualFormatWrite ==
    (BridgeRan /\ call.fn = "writeImage" /\ call.outcome.status = "resolved")
        => /\ HoldsType(TargetItems, NSPasteboardTypePNG) <=> CallFormat = "png"
           /\ CallFormat = "tiff"
                 => /\ HoldsType(TargetItems, NSPasteboardTypeTIFF)
                    /\ ~HoldsType(TargetItems, NSPasteboardTypePNG)

C6_Witness ==
    /\ BridgeRan /\ call.fn = "writeImage" /\ call.format = Some("tiff")
    /\ call.outcome.status = "resolved"
    /\ NSPasteboardTypePNG \in Range(call.typesBefore)
    /\ Types(TargetItems) = <<NSPasteboardTypeTIFF>>

\* The image bytes a read-image result stands for, None when the result is
\* not base64.
ReadImageBytes == Base64Decode(call.outcome.value)

\* C7: image round trip -- after a successful write-image of a valid image,
\* read-image succeeds for both formats and its output is encoded as the
\* reader asked (PNG signature for png, "II" or "MM" for tiff), whatever
\* format the writer was given.
C7_ImageRoundTrip ==
    (BridgeRan /\ call.fn = "readImage" /\ TargetWrite.cmd = "write-image")
        => /\ call.outcome.status = "resolved"
           /\ IsSome(ReadImageBytes)
           /\ CallFormat = "png" => HasPrefix(Get(ReadImageBytes), <<137, 80, 78, 71>>)
           /\ CallFormat = "tiff"
                 => \/ HasPrefix(Get(ReadImageBytes), <<73, 73>>)
                    \/ HasPrefix(Get(ReadImageBytes), <<77, 77>>)

C7_Witness ==
    /\ BridgeRan /\ call.fn = "readImage" /\ call.format = Some("png")
    /\ TargetWrite.cmd = "write-image" /\ TargetWrite.format = "tiff"
    /\ call.outcome.status = "resolved"
    /\ HasPrefix(Get(ReadImageBytes), <<137, 80, 78, 71>>)

\* C8: custom type round trip -- a typed read of T that follows a typed
\* write of text s under T returns s; after a typed write of base64(s)
\* with the base64 flag it returns s too, the decoded text.
C8_CustomTypeRoundTrip ==
    (BridgeRan /\ call.fn = "readData" /\ TargetWrite.cmd = "write"
        /\ TargetWrite.type = call.type /\ IsSome(TargetWrite.data))
        => /\ ~TargetWrite.isBase64 => call.outcome = Resolved(Get(TargetWrite.data))
           /\ TargetWrite.isBase64
                 => \A s \in Texts :
                       Get(TargetWrite.data) = Base64Encode(UTF8Encode(s))
                           => call.outcome = Resolved(s)

C8_Witness ==
    /\ BridgeRan /\ call.fn = "readData" /\ call.type = Some(CustomType)
    /\ TargetWrite.cmd = "write" /\ TargetWrite.type = Some(CustomType)
    /\ TargetWrite.isBase64
    /\ TargetWrite.data = Some(Base64Encode(UTF8Encode(<<233, 10>>)))
    /\ call.outcome = Resolved(<<233, 10>>)

IsBlank(text) == \A i \in DOMAIN text : IsBlankChunk(text[i])

\* t is text with the whitespace at its two ends removed.
IsTrimOf(t, text) ==
    \E i \in 0..Len(text), j \in 0..Len(text) :
        /\ i <= j
        /\ t = SubSeq(text, i + 1, j)
        /\ IsBlank(SubSeq(text, 1, i))
        /\ IsBlank(SubSeq(text, j + 1, Len(text)))
        /\ t # <<>> => (~IsBlankChunk(t[1]) /\ ~IsBlankChunk(t[Len(t)]))

\* C9: bridge error mapping -- a close with a non-zero exit code, or with
\* none (taken as 1), rejects the call with the trimmed stderr text, or
\* with "exited with code N" when that is empty, and returns no result; an
\* exit code of 0 never rejects because of stderr.
C9_BridgeErrorMapping ==
    call.fn \in BridgeFns
        => /\ call.result.exitCode = (IF IsSome(call.code) THEN Get(call.code) ELSE 1)
           /\ call.result.exitCode # 0
                 => /\ call.outcome.status = "rejected"
                    /\ call.outcome.value = <<>>
                    /\ ~IsBlank(call.result.stderr)
                          => IsTrimOf(call.outcome.error, call.result.stderr)
                    /\ IsBlank(call.result.stderr)
                          => call.outcome.error
                               = <<"pbhelper exited with code ",
                                   ToString(call.result.exitCode)>>
           /\ call.result.exitCode = 0
                 => \/ call.outcome.status = "resolved"
                    \/ /\ call.fn = "listTypes"
                       /\ call.outcome.error = <<"SyntaxError">>

C9_Witness ==
    /\ call.fn = "readText" /\ call.signal
    /\ call.code = None
    /\ call.outcome = Rejected(<<"pbhelper exited with code ", "1">>)

----------------------------------------------------------------------------
(* The failure cases of one adapter run, read off its command line, its    *)
(* standard input and the pasteboard it addressed.                         *)

Commands ==
    {"list-types", "read-text", "write-text", "read-image", "write-image",
     "read", "write", "clear"}

ValueFlags == {"--pasteboard", "--type", "--format"}

KnownFlags == ValueFlags \cup {"--base64"}

\* argv[i] is the value of the flag before it.
IsFlagValue(argv, i) == i > 3 /\ argv[i - 1] \in ValueFlags

HasFlag(argv, flag) ==
    \E i \in 3..Len(argv) : argv[i] = flag /\ ~IsFlagValue(argv, i)

\* The value given to a flag the command line holds.
FlagValue(argv, flag) ==
    argv[(CHOOSE i \in 3..(Len(argv) - 1) : argv[i] = flag /\ ~IsFlagValue(argv, i)) + 1]

CallCommand == IF Len(call.argv) >= 2 THEN call.argv[2] ELSE ""

MissingCommand == Len(call.argv) < 2

UnknownCommand == Len(call.argv) >= 2 /\ call.argv[2] \notin Commands

UnknownArgument ==
    \E i \in 3..Len(call.argv) :
        call.argv[i] \notin KnownFlags /\ ~IsFlagValue(call.argv, i)

MissingFlagValue ==
    /\ Len(call.argv) >= 3
    /\ call.argv[Len(call.argv)] \in ValueFlags
    /\ ~IsFlagValue(call.argv, Len(call.argv))

MissingType == CallCommand \in {"read", "write"} /\ ~HasFlag(call.argv, "--type")

BadCommandLine ==
    MissingCommand \/ UnknownCommand \/ UnknownArgument \/ MissingFlagValue
        \/ MissingType

HoldsText(items, type) ==
    \E i \in DOMAIN items :
        items[i].type = type /\ IsSome(StringFromData(items[i].data))

HoldsImage(items, type) ==
    \E i \in DOMAIN items :
        items[i].type = type /\ IsSome(BitmapImageRep(items[i].data))

NoText == CallCommand = "read-text" /\ ~HoldsText(TargetItems, NSPasteboardTypeString)

NoImage ==
    /\ CallCommand = "read-image"
    /\ ~HoldsImage(TargetItems, NSPasteboardTypeTIFF)
    /\ ~HoldsImage(TargetItems, NSPasteboardTypePNG)

NoDataForType ==
    /\ CallCommand = "read" /\ ~BadCommandLine
    /\ ~HoldsType(TargetItems, FlagValue(call.argv, "--type"))

StdinText == StringFromData(call.stdin)

ExpectsText ==
    CallCommand = "write-text"
        \/ (CallCommand = "write" /\ ~HasFlag(call.argv, "--base64"))

ExpectsBase64 ==
    CallCommand = "write-image"
        \/ (CallCommand = "write" /\ HasFlag(call.argv, "--base64"))

InvalidUTF8Input == (ExpectsText \/ ExpectsBase64) /\ ~IsSome(StdinText)

StdinDecoded == Base64Decode(TrimmingWhitespace(Get(StdinText)))

InvalidBase64Input == ExpectsBase64 /\ IsSome(StdinText) /\ ~IsSome(StdinDecoded)

UndecodableImage ==
    /\ CallCommand = "write-image" /\ IsSome(StdinText) /\ IsSome(StdinDecoded)
    /\ ~IsSome(BitmapImageRep(Get(StdinDecoded)))

FailureCase ==
    BadCommandLine \/ NoText \/ NoImage \/ NoDataForType \/ InvalidUTF8Input
        \/ InvalidBase64Input \/ UndecodableImage

\* The command of the last run has done what it is for.
Completed ==
    CASE CallCommand = "write-text" -> Types(TargetItems) = <<NSPasteboardTypeString>>
      [] CallCommand = "write-image" -> HoldsType(TargetItems, NSPasteboardTypeTIFF)
      [] CallCommand = "write" ->
            Types(TargetItems) = <<FlagValue(call.argv, "--type")>>
      [] CallCommand = "clear" -> TargetItems = <<>>
      [] CallCommand = "list-types" -> call.result.stdout # <<>>
      [] CallCommand \in {"read-text", "read-image", "read"} -> TRUE
      [] OTHER -> FALSE

\* C10: uniform adapter failure signalling -- every failure case of a run
\* (nothing to read, invalid UTF-8, invalid base64, undecodable image,
\* missing --type, missing flag value, unknown argument, unknown or missing
\* command) puts a message on standard error and exits with code 1; a run
\* exits with 0 or 1, and with 0 only when the command completed.
C10_UniformFailure ==
    AdapterRan
        => /\ call.code \in {Some(0), Some(1)}
           /\ FailureCase
                 => /\ call.code = Some(1)
                    /\ ~IsBlank(call.result.stderr)
                    /\ call.result.stdout = <<>>
           /\ call.code = Some(0)
                 => /\ ~FailureCase
                    /\ Completed
                    /\ call.result.stderr = <<>>

C10_Witness ==
    /\ AdapterRan /\ call.fn = "pbhelper"
    /\ call.argv = <<PBHELPER, "read">>
    /\ MissingType
    /\ call.code = Some(1)
    /\ call.result.stderr = <<"--type is required for read command", "\n">>

----------------------------------------------------------------------------
(* What a run leaves on the pasteboards.                                   *)

WriteCommands == {"write-text", "write-image", "write"}

\* The image format of the last run: --format, png when it is left out.
FormatArg ==
    IF HasFlag(call.argv, "--format") THEN FlagValue(call.argv, "--format")
    ELSE "png"

\* The types the write command of the last run is meant to set, in order.
MeantTypes ==
    CASE CallCommand = "write-text" -> <<NSPasteboardTypeString>>
      [] CallCommand = "write-image" ->
            IF FormatArg = "png"
            THEN <<NSPasteboardTypeTIFF, NSPasteboardTypePNG>>
            ELSE <<NSPasteboardTypeTIFF>>
      [] CallCommand = "write" -> <<FlagValue(call.argv, "--type")>>
      [] OTHER -> <<>>

\* C11: no partial success -- a run that exits with 0 from a write command
\* leaves on its pasteboard exactly the representations the write is meant
\* to set (from clear: nothing); a run that exits with another code leaves
\* its pasteboard as it was before, or, for a write command only, empty;
\* and no run changes a pasteboard it did not address.
C11_NoPartialSuccess ==
    [][AdapterRan'
          => /\ \A p \in Pasteboards \ {call'.target} :
                    pasteboards'[p] = pasteboards[p]
             /\ (call'.code = Some(0) /\ CallCommand' \in WriteCommands)
                    => Types(TargetItems') = MeantTypes'
             /\ (call'.code = Some(0) /\ CallCommand' = "clear")
                    => TargetItems' = <<>>
             /\ call'.code # Some(0)
                    => \/ TargetItems' = pasteboards[call'.target]
                       \/ /\ CallCommand' \in WriteCommands
                          /\ TargetItems' = <<>>]_vars

C11_Witness ==
    /\ call.fn = "writeImage" /\ call.code = Some(1)
    /\ call.result.stderr = <<"Failed to decode image data", "\n">>
    /\ Types(TargetItems) = <<NSPasteboardTypeTIFF, NSPasteboardTypePNG>>

\* C13: failed invocations leave the clipboard untouched -- a run that
\* exits with a code other than 0, whatever made it fail (unknown
\* argument, missing flag value, missing --type, invalid UTF-8, invalid
\* base64, undecodable image, nothing to read), leaves every pasteboard
\* exactly as it was before the run; a failed write never empties one.
C13_FailedRunsChangeNothing ==
    [][(AdapterRan' /\ call'.code # Some(0)) => pasteboards' = pasteboards]_vars

C13_Witness ==
    /\ call.fn = "writeData" /\ call.code = Some(1)
    /\ call.result.stderr = <<"Invalid base64 data", "\n">>
    /\ TargetItems # <<>>
    /\ FailureCase

----------------------------------------------------------------------------
\* The last run was a well-formed typed read.
TypedRead == AdapterRan /\ CallCommand = "read" /\ ~BadCommandLine

\* The type a typed read or write names.
TypeArg == FlagValue(call.argv, "--type")

\* The bytes the target pasteboard holds for the named type.
TypePayload ==
    TargetItems[CHOOSE i \in DOMAIN TargetItems : TargetItems[i].type = TypeArg].data

\* C19: typed read decode policy -- a typed read of T succeeds if and only
\* if the pasteboard holds a payload for T; a payload that is text comes
\* out verbatim, byte for byte, and any other payload comes out as the
\* base64 encoding of its bytes; text is never emitted as base64.  The
\* bridge resolves with the output decoded as a string.
C19_TypedReadPolicy ==
    TypedRead
        => /\ (call.code = Some(0)) <=> HoldsType(TargetItems, TypeArg)
           /\ call.code = Some(0)
                 => /\ IsSome(StringFromData(TypePayload))
                          => call.result.stdout = TypePayload
                    /\ ~IsSome(StringFromData(TypePayload))
                          => /\ call.result.stdout
                                   = UTF8Encode(Base64Encode(TypePayload))
                             /\ Base64Decode(BufferToString(call.result.stdout))
                                   = Some(TypePayload)
                    /\ call.fn = "readData"
                          => call.outcome
                                = Resolved(BufferToString(call.result.stdout))

C19_Witness ==
    /\ TypedRead /\ call.fn = "readData" /\ call.code = Some(0)
    /\ TypeArg = CustomType
    /\ TypePayload = InvalidUTF8
    /\ call.outcome = Resolved(Base64Encode(InvalidUTF8))

----------------------------------------------------------------------------
\* The last run was a well-formed read-text.
TextRead == AdapterRan /\ CallCommand = "read-text" /\ ~BadCommandLine

\* The bytes the last successful write on the target pasteboard stored:
\* its standard input, base64-decoded when it was a typed write with
\* --base64.
WrittenBytes ==
    IF TargetWrite.cmd = "write" /\ TargetWrite.isBase64
    THEN Get(Base64Decode(TrimmingWhitespace(Get(StringFromData(TargetWrite.stdin)))))
    ELSE TargetWrite.stdin

\* The target pasteboard was last given a plain-text representation: text
\* stored by write-text, or by a typed write under the plain-text type.
WrittenAsText ==
    \/ TargetWrite.cmd = "write-text"
    \/ /\ TargetWrite.cmd = "write"
       /\ TargetWrite.type = Some(NSPasteboardTypeString)
       /\ IsSome(StringFromData(WrittenBytes))

----------------------------------------------------------------------------
\* The last run was a well-formed read-image.
ImageRead == AdapterRan /\ CallCommand = "read-image" /\ ~BadCommandLine

\* The candidate read-image is to use: TIFF when the pasteboard holds a
\* TIFF representation that decodes, else PNG when it holds one that does.
Candidate ==
    IF HoldsImage(TargetItems, NSPasteboardTypeTIFF) THEN Some(NSPasteboardTypeTIFF)
    ELSE IF HoldsImage(TargetItems, NSPasteboardTypePNG) THEN Some(NSPasteboardTypePNG)
    ELSE None

CandidateData ==
    TargetItems[CHOOSE i \in DOMAIN TargetItems :
                   TargetItems[i].type = Get(Candidate)].data

\* The signature of the encoding read-image is asked for.
AskedSignature ==
    IF FormatArg = "tiff" THEN {TIFFLittleEndian, TIFFBigEndian} ELSE {PNGSignature}

\* C18: read-image candidate order -- read-image uses the TIFF
\* representation when it is present and decodes, and the PNG one only
\* when TIFF is absent or does not decode; its output is the pixels of
\* that candidate in the format asked for; it fails with "No image on
\* pasteboard" exactly when neither candidate is present and decodable.
C18_ReadImageOrder ==
    ImageRead
        => /\ (call.code = Some(0)) <=> IsSome(Candidate)
           /\ call.code # Some(0)
                 => call.result.stderr = <<"No image on pasteboard", "\n">>
           /\ call.code = Some(0)
                 => /\ IsSome(ReadImageBytes)
                    /\ \E sig \in AskedSignature : HasPrefix(Get(ReadImageBytes), sig)
                    /\ BitmapImageRep(Get(ReadImageBytes))
                          = BitmapImageRep(CandidateData)

C18_Witness ==
    /\ ImageRead /\ call.code = Some(0)
    /\ HoldsType(TargetItems, NSPasteboardTypeTIFF)
    /\ ~HoldsImage(TargetItems, NSPasteboardTypeTIFF)
    /\ Candidate = Some(NSPasteboardTypePNG)
    /\ FormatArg = "tiff"

----------------------------------------------------------------------------
\* The process of call c could not be started.
SpawnFailed(c) == IsSome(procs[c].spawnError)

\* The error of a call whose process could not be started.
SpawnFailure(c) ==
    Rejected(<<"Failed to spawn pbhelper: ">> \o Get(procs[c].spawnError))

\* C12: spawn failure -- a call whose adapter could not be started is
\* never resolved; from its 'error' event on it is rejected with the
\* spawn-failure error, and a 'close' event delivered after the 'error'
\* event, whatever code it carries, changes nothing: the failure is never
\* reported as an exit code.
C12_SpawnFailure ==
    \A c \in CallIds :
        SpawnFailed(c)
            => /\ Outcome(c).status # "resolved"
               /\ bridge[c].events # <<>> => Outcome(c) = SpawnFailure(c)
               /\ bridge[c].events = <<>> => Outcome(c) = Pending
               /\ bridge[c].promise.value = <<>>

C12_Witness ==
    \E c \in CallIds :
        /\ SpawnFailed(c)
        /\ bridge[c].events = <<"error", "close">>
        /\ Outcome(c)
              = Rejected(<<"Failed to spawn pbhelper: ", "spawn ", PBHELPER, " ENOENT">>)

----------------------------------------------------------------------------
\* Every call has been made and its process is closed.
AllClosed == \A c \in CallIds : procs[c].pc = "closed"

WriteFns == {"writeText", "writeImage", "writeData"}

\* Call c was a write whose process exited with code 0.
WroteOK(c) == bridge[c].fn \in WriteFns /\ procs[c].code = Some(0)

\* The representations the write of call c set, in order: what it leaves
\* on a pasteboard when it runs alone.
Written(c) ==
    pbhelper(procs[c].argv, StdinWritten(bridge[c].stdinLog),
             EmptyPasteboards).pasteboards[procs[c].target]

\* Two writes have raced on the general pasteboard and both are over.
WritesRaced == AllClosed /\ \A c \in CallIds : WroteOK(c)

\* The call whose clearContents came last.
LastClearer == Get(owner["general"])

----------------------------------------------------------------------------
\* Call r is a read-text and the other call, w, a write-text.
ReadRacesWrite(r, w) ==
    /\ r # w
    /\ bridge[r].fn = "readText"
    /\ bridge[w].fn \in {"none", "writeText"}

\* The text call w writes; the held text while w has not been made.
TextOf(w) ==
    IF bridge[w].fn = "writeText" THEN Get(bridge[w].stdinData) ELSE HeldText

\* C15: read-text racing one write-text -- on a pasteboard that held text
\* p, a read-text whose only companion is a write-text of s, their steps
\* interleaved in any order, resolves with p, resolves with s, or is
\* rejected with "No text on pasteboard" (it ran between the clear and the
\* set of the write); it never yields any other string.
C15_ReadRacingWrite ==
    \A r, w \in CallIds :
        ReadRacesWrite(r, w)
            => IF SpawnFailed(r) THEN Outcome(r) \in {Pending, SpawnFailure(r)}
               ELSE Outcome(r) \in {Pending, Resolved(HeldText), Resolved(TextOf(w)),
                                    Rejected(<<"No text on pasteboard">>)}

C15_Witness ==
    \E r, w \in CallIds :
        /\ ReadRacesWrite(r, w)
        /\ bridge[w].fn = "writeText" /\ TextOf(w) = <<233>>
        /\ procs[w].pc = "set" /\ procs[w].sets # <<>>
        /\ Outcome(r) = Rejected(<<"No text on pasteboard">>)

----------------------------------------------------------------------------
\* The calls a bridge operation with this payload makes on proc.stdin: the
\* payload, when there is one, then the end.
PayloadThenEnd(stdinData) ==
    IF IsSome(stdinData)
    THEN <<[op |-> "write", data |-> UTF8Encode(Get(stdinData))],
           [op |-> "end", data |-> <<>>]>>
    ELSE <<[op |-> "end", data |-> <<>>]>>

\* Where call c stands in its lifecycle.
Lifecycle(c) ==
    /\ bridge[c].state = "idle"
          => bridge[c].spawned = 0 /\ bridge[c].promise = Pending
    /\ bridge[c].state = "called"
          => /\ bridge[c].spawned = 1
             /\ bridge[c].stdinLog = PayloadThenEnd(bridge[c].stdinData)
    /\ bridge[c].promise.status = "resolved"
          => /\ "close" \in Range(bridge[c].events)
             /\ bridge[c].promise.value.stdout = procs[c].emitted
             /\ procs[c].out = <<>>
    /\ bridge[c].promise.status = "rejected"
          => "error" \in Range(bridge[c].events)
    /\ (procs[c].pc = "closed" /\ ~SpawnFailed(c))
          => bridge[c].promise.status = "resolved"

\* C16: bridge call lifecycle -- every call spawns exactly one process, and
\* none after a failure; it writes its payload, if it has one, to the
\* process's standard input and then ends it; its promise is settled only
\* after the 'close' event or a spawn 'error', and once settled it never
\* changes; the stdout it resolves with is everything the process wrote,
\* the chunks concatenated in the order they arrived.
C16_BridgeLifecycle ==
    [][\A c \in CallIds :
          /\ Lifecycle(c)'
          /\ bridge[c].promise.status # "pending"
                => bridge'[c].promise = bridge[c].promise
          /\ bridge[c].state = "called"
                => bridge'[c].spawned = 1]_vars

C16_Witness ==
    \E c \in CallIds :
        /\ bridge[c].fn = "readText"
        /\ Len(bridge[c].stdoutChunks) = 2
        /\ procs[c].emitted = UTF8Encode(<<233>>)
        /\ Outcome(c) = Resolved(<<233>>)

----------------------------------------------------------------------------
\* Call c has been made, and call c has been settled.
Called(c) == bridge[c].state = "called"

HasSettled(c) == Outcome(c).status # "pending"

\* C17: every bridge call eventually settles -- the bridge ends the
\* adapter's standard input on every call, with a payload or without, so a
\* command that drains standard input reaches end-of-file, does its
\* operation and exits, and the call is resolved or rejected; no call
\* waits forever.
C17_EventuallySettles ==
    /\ [](\A c \in CallIds : Called(c) => StdinEnded(bridge[c].stdinLog))
    /\ \A c \in CallIds : Called(c) ~> HasSettled(c)

C17_Witness ==
    \E c \in CallIds :
        /\ bridge[c].fn = "writeData"
        /\ bridge[c].stdinData = Some(<<233, 10>>)
        /\ procs[c].pc = "closed" /\ procs[c].code = Some(0)
        /\ Outcome(c) = Resolved(<<>>)

----------------------------------------------------------------------------
ReadCommands == {"list-types", "read-text", "read-image", "read"}

\* The last run was a read command that ran to its exit.
ReadRan == AdapterRan /\ CallCommand \in ReadCommands

\* C21: read-only operations -- list-types, read-text, read-image and the
\* typed read, whether they succeed or fail, leave the types and payloads
\* of every pasteboard as they were; a read that repeats the read before it
\* (same command line, nothing written in between) has the same exit code,
\* output and outcome.
C21_ReadsChangeNothing ==
    [][ReadRan'
          => /\ pasteboards' = pasteboards
             /\ (ReadRan /\ call'.argv = call.argv)
                   => /\ call'.result = call.result
                      /\ call'.outcome = call.outcome]_vars

C21_Witness ==
    /\ ReadRan /\ CallCommand = "read" /\ call.code = Some(0)
    /\ Types(TargetItems) = <<NSPasteboardTypeTIFF, NSPasteboardTypePNG>>
    /\ call.outcome = Resolved(Base64Encode(TargetItems[1].data))

----------------------------------------------------------------------------
\* The pasteboard a name is said to denote: the general one when the name
\* is absent or "general", a pasteboard of its own for any other name.
SaidPasteboard(pasteboard) ==
    IF pasteboard \in {None, Some("general")} THEN "general" ELSE Get(pasteboard)

\* The pasteboard a name given to the bridge denotes: an empty name is
\* left out of the command line like an absent one.
NamedPasteboard(pasteboard) ==
    IF pasteboard \in {None, Some(""), Some("general")} THEN "general"
    ELSE Get(pasteboard)

\* The last call was a write or a clear that ran to its exit.
WriteRan == BridgeRan /\ CallCommand \in WriteCommands \cup {"clear"}

\* C22 as stated: pasteboard isolation -- a write or clear naming P leaves
\* every pasteboard other than the one P denotes unchanged, where an absent
\* name and "general" denote the general pasteboard and every other name
\* denotes a pasteboard of its own.
C22_IsolationEveryName ==
    [][WriteRan'
          => \A q \in NamedPasteboards \cup {""} :
                (q # SaidPasteboard(call'.pasteboard) /\ q \in DOMAIN pasteboards)
                    => pasteboards'[q] = pasteboards[q]]_vars

\* C22: pasteboard isolation -- a write or clear through the bridge
\* addresses the pasteboard its name denotes and leaves every other
\* pasteboard unchanged, where an absent name, an empty name and "general"
\* denote the general pasteboard and every other name (find, font, ruler,
\* drag, a custom string) denotes a pasteboard of its own.
C22_Isolation ==
    [][WriteRan'
          => /\ call'.target = NamedPasteboard(call'.pasteboard)
             /\ \A q \in DOMAIN pasteboards :
                   q # NamedPasteboard(call'.pasteboard)
                       => pasteboards'[q] = pasteboards[q]]_vars

C22_Witness ==
    /\ WriteRan /\ call.fn = "clear" /\ call.pasteboard = Some("mine")
    /\ call.code = Some(0)
    /\ call.typesBefore = <<NSPasteboardTypeString>>
    /\ pasteboards["mine"] = <<>>
    /\ Types(pasteboards["general"]) = <<NSPasteboardTypeTIFF, NSPasteboardTypePNG>>
    /\ Types(pasteboards["find"]) = <<NSPasteboardTypeString>>

----------------------------------------------------------------------------
\* The adapter command of each bridge function.
CommandOf(fn) ==
    CASE fn = "listTypes" -> "list-types"
      [] fn = "readText" -> "read-text"
      [] fn = "writeText" -> "write-text"
      [] fn = "readImage" -> "read-image"
      [] fn = "writeImage" -> "write-image"
      [] fn = "readData" -> "read"
      [] fn = "writeData" -> "write"
      [] fn = "clear" -> "clear"
      [] OTHER -> ""

\* The first words of what the parser writes when it rejects a command line.
ParserErrors ==
    {"Unknown argument:", "Missing value for --pasteboard",
     "Missing value for --type", "Missing value for --format"}

\* The run was not ended by the parser.
ParserAccepted ==
    call.result.stderr = <<>> \/ call.result.stderr[1] \notin ParserErrors

\* What the command line of the last call parses to, the pasteboard apart:
\* the command, type, format and base64 flag the bridge call was given.
ParsesBack(parsed) ==
    /\ parsed.ok
    /\ ParserAccepted
    /\ parsed.args.command = CommandOf(call.fn)
    /\ parsed.args.type = call.type
    /\ parsed.args.format = formatOrDefault(call.format)
    /\ parsed.args.isBase64 = call.isBase64

\* C23 as stated: argument-vector round trip -- the command line the
\* bridge builds is accepted by the parser and parses back to the same
\* command, pasteboard, type, format and base64 flag, whatever the values
\* look like; only an omitted pasteboard name parses to no name, which is
\* the general pasteboard.
C23_RoundTripEveryName ==
    BridgeRan
        => /\ ParsesBack(parseArgs(call.argv))
           /\ parseArgs(call.argv).args.pasteboard = call.pasteboard

\* C23: argument-vector round trip -- the command line the bridge builds
\* is accepted by the parser (no unknown argument, no missing value) and
\* parses back to the same command, pasteboard, type, format and base64
\* flag, also for values spelled like flags; an omitted or empty pasteboard
\* name parses to no name, which is the general pasteboard.
C23_RoundTrip ==
    BridgeRan
        => /\ ParsesBack(parseArgs(call.argv))
           /\ parseArgs(call.argv).args.pasteboard =
                 (IF call.pasteboard = Some("") THEN None ELSE call.pasteboard)
           /\ call.pasteboard \in {None, Some("")} => call.target = "general"

C23_Witness ==
    /\ BridgeRan /\ call.fn = "writeData"
    /\ call.type = Some("--base64") /\ ~call.isBase64
    /\ call.pasteboard = Some("--type")
    /\ call.argv = <<PBHELPER, "write", "--type", "--base64", "--pasteboard", "--type">>
    /\ call.code = Some(0)
    /\ Types(pasteboards["--type"]) = <<"--base64">>

====
